---- MODULE Spec2Model ----
(***************************************************************************)
(* A model of varbor (src/varbor.hxx), a CBOR codec: the header codec, the *)
(* half-float codec, the Value tree with its encoder and decoder, and the  *)
(* typed to_cbor / from_cbor functions.                                     *)
(*                                                                         *)
(* Numbers wider than TLC's integers are kept as numerals: a uintN_t, a    *)
(* float or a double is the sequence of its N/8 bytes, most significant    *)
(* first (for a float or double: the bytes of its IEEE-754 bit pattern).   *)
(* The bytes an object has in memory depend on the host's endianness,      *)
(* which is a variable of the model fixed at Init.                         *)
(***************************************************************************)
EXTENDS Integers, Sequences, FiniteSets, TLC

VARIABLES
    endian,   \* std::endian::native of the build: "little" or "big"
    arg,      \* the caller's input to the typed API (a native value or a buffer)
    enc,      \* name of the encoder that produced out ("none" before any)
    out,      \* the output buffer: the bytes written through the output iterator
    dec,      \* outcome of the last decode or comparison
    heap      \* the Value nodes alive, by address

vars == <<endian, arg, enc, out, dec, heap>>

(***************************************************************************)
(* Bytes, bits and numerals                                                *)
(***************************************************************************)
Byte == 0..255

RECURSIVE BitAnd(_, _)
\* std::byte operator&
BitAnd(a, b) ==
    IF a = 0 \/ b = 0 THEN 0
    ELSE (a % 2) * (b % 2) + 2 * BitAnd(a \div 2, b \div 2)

RECURSIVE BitOr(_, _)
\* std::byte operator|
BitOr(a, b) ==
    IF a = 0 THEN b
    ELSE IF b = 0 THEN a
    ELSE (IF a % 2 = 1 \/ b % 2 = 1 THEN 1 ELSE 0) + 2 * BitOr(a \div 2, b \div 2)

RECURSIVE Pow2(_)
Pow2(n) == IF n = 0 THEN 1 ELSE 2 * Pow2(n - 1)

\* std::byte(x): the low eight bits of a non-negative integer
ToByte(x) == x % 256

\* std::byte operator<< and operator>>
Shl(b, n) == (b * Pow2(n)) % 256
Shr(b, n) == b \div Pow2(n)

Reverse(s) == [i \in 1..Len(s) |-> s[Len(s) + 1 - i]]

Zeros(w) == [i \in 1..w |-> 0]

\* the numeral of width w bytes of a small natural n (n < 2^31)
Num(n, w) == [i \in 1..w |-> IF w - i > 3 THEN 0 ELSE (n \div Pow2(8 * (w - i))) % 256]

\* static_cast between unsigned widths: truncation keeps the low bytes,
\* widening pads with zero bytes
Cast(v, w) ==
    IF Len(v) >= w THEN SubSeq(v, Len(v) - w + 1, Len(v))
    ELSE Zeros(w - Len(v)) \o v

RECURSIVE NumLt(_, _)
\* a < b for two numerals of the same width
NumLt(a, b) ==
    IF Len(a) = 0 THEN FALSE
    ELSE IF a[1] # b[1] THEN a[1] < b[1]
    ELSE NumLt(Tail(a), Tail(b))

\* the value of a numeral known to be below 2^31
Small(v) ==
    LET w == Len(v)
    IN  (IF w >= 4 THEN v[w - 3] * 16777216 ELSE 0) +
        (IF w >= 3 THEN v[w - 2] * 65536 ELSE 0) +
        (IF w >= 2 THEN v[w - 1] * 256 ELSE 0) + v[w]

\* the bytes of an object in memory, in address order
ObjectRep(v) == IF endian = "big" THEN v ELSE Reverse(v)

\* the object whose bytes in memory are mem
FromRep(mem) == IF endian = "big" THEN mem ELSE Reverse(mem)

to_be_bytes(value) ==
    LET v_pointer == ObjectRep(value)
        n == Len(value)
    IN  [i \in 1..n |-> IF endian = "big" THEN v_pointer[i] ELSE v_pointer[n + 1 - i]]

from_be_bytes(input) ==
    LET n == Len(input)
    IN  FromRep([i \in 1..n |-> IF endian = "big" THEN input[i] ELSE input[n + 1 - i]])

(***************************************************************************)
(* Header and Count                                                        *)
(***************************************************************************)
PositiveInteger == 0
NegativeInteger == 1
ByteString == 2
Utf8String == 3
Array == 4
Map == 5
SemanticTag == 6
SpecialFloat == 7

MajorType == 0..7

\* the width in bytes of each alternative of Count
ArmWidth(arm) == CASE arm = 0 -> 1 [] arm = 1 -> 1 [] arm = 2 -> 2 [] arm = 3 -> 4 [] arm = 4 -> 8

\* Count(std::in_place_index<arm>, v): v converted to the alternative's type
Count(arm, v) == [arm |-> arm, v |-> Cast(v, ArmWidth(arm))]

Header(type, count) == [type |-> type, count |-> count]

\* Header(type): indefinite count
HeaderIndefinite(type) == Header(type, Count(0, Num(31, 1)))

HeaderOfInclusive(type, simple_count) ==
    IF NumLt(simple_count, Num(25, 8)) THEN Header(type, Count(0, simple_count))
    ELSE IF NumLt(simple_count, <<0, 0, 0, 0, 0, 0, 1, 1>>) THEN Header(type, Count(1, simple_count))
    ELSE IF NumLt(simple_count, <<0, 0, 0, 0, 0, 1, 0, 1>>) THEN Header(type, Count(2, simple_count))
    ELSE IF NumLt(simple_count, <<0, 0, 0, 1, 0, 0, 0, 1>>) THEN Header(type, Count(3, simple_count))
    ELSE Header(type, Count(4, simple_count))

\* Header(type, simple_count)
HeaderOf(type, simple_count) ==
    IF NumLt(simple_count, Num(24, 8)) THEN Header(type, Count(0, simple_count))
    ELSE IF NumLt(simple_count, <<0, 0, 0, 0, 0, 0, 1, 0>>) THEN Header(type, Count(1, simple_count))
    ELSE IF NumLt(simple_count, <<0, 0, 0, 0, 0, 1, 0, 0>>) THEN Header(type, Count(2, simple_count))
    ELSE IF NumLt(simple_count, <<0, 0, 0, 1, 0, 0, 0, 0>>) THEN Header(type, Count(3, simple_count))
    ELSE Header(type, Count(4, simple_count))

\* Header::get_count: [st |-> "value", v], [st |-> "nullopt"] or a throw
get_count_any_tiny(header) ==
    IF header.count.arm = 0 THEN
        LET tinycount == header.count.v[1]
        IN  IF tinycount = 31 THEN [st |-> "nullopt", v |-> Zeros(8)]
            ELSE [st |-> "value", v |-> Cast(header.count.v, 8)]
    ELSE [st |-> "value", v |-> Cast(header.count.v, 8)]

\* Header::get_count: a value, std::nullopt or a throw of SpecialCountError
get_count(header) ==
    IF header.count.arm = 0 THEN
        LET tinycount == header.count.v[1]
        IN  IF tinycount < 24 THEN [st |-> "value", v |-> Cast(header.count.v, 8)]
            ELSE IF tinycount = 31 THEN [st |-> "nullopt", v |-> Zeros(8)]
            ELSE [st |-> "SpecialCountError", v |-> Zeros(8)]
    ELSE [st |-> "value", v |-> Cast(header.count.v, 8)]

\* write_header: the bytes written through the output iterator
write_header(header) ==
    LET type_byte == ToByte(header.type * 32)
    IN  IF header.count.arm = 0 THEN
            <<BitOr(type_byte, header.count.v[1])>>
        ELSE
            <<BitOr(type_byte, ToByte(23 + header.count.arm))>> \o to_be_bytes(header.count.v)

\* read_header on the bytes input from position pos (1-based index of the
\* next unread byte): [err, pos, header]
NoHeader == Header(0, Count(0, Zeros(1)))

read_header_simple_count(input, pos) ==
    IF pos > Len(input) THEN [err |-> "EndOfInput", pos |-> pos, header |-> NoHeader]
    ELSE
        LET byte == input[pos]
            type == Shr(byte, 5)
            tinycount == BitAnd(byte, 31)
            n == CASE tinycount = 24 -> 1 [] tinycount = 25 -> 2
                   [] tinycount = 26 -> 4 [] tinycount = 27 -> 8 [] OTHER -> 0
        IN  IF n = 0 THEN
                [err |-> "none", pos |-> pos + 1,
                 header |-> Header(type, Count(0, <<tinycount>>))]
            ELSE IF pos + n > Len(input) THEN
                [err |-> "EndOfInput", pos |-> Len(input) + 1, header |-> NoHeader]
            ELSE
                [err |-> "none", pos |-> pos + 1 + n,
                 header |-> HeaderOf(type, Cast(from_be_bytes(SubSeq(input, pos + 1, pos + n)), 8))]

read_header(input, pos) ==
    IF pos > Len(input) THEN [err |-> "EndOfInput", pos |-> pos, header |-> NoHeader]
    ELSE
        LET byte == input[pos]
            type == Shr(byte, 5)
            tinycount == BitAnd(byte, 31)
            n == CASE tinycount = 24 -> 1 [] tinycount = 25 -> 2
                   [] tinycount = 26 -> 4 [] tinycount = 27 -> 8 [] OTHER -> 0
        IN  IF n = 0 THEN
                [err |-> "none", pos |-> pos + 1,
                 header |-> Header(type, Count(0, <<tinycount>>))]
            ELSE IF pos + n > Len(input) THEN
                \* read() throws at the first missing byte
                [err |-> "EndOfInput", pos |-> Len(input) + 1, header |-> NoHeader]
            ELSE
                [err |-> "none", pos |-> pos + 1 + n,
                 header |-> Header(type, Count(tinycount - 23,
                                from_be_bytes(SubSeq(input, pos + 1, pos + n))))]

(***************************************************************************)
(* IEEE-754 values as bit patterns.  A double is sign, 11 exponent bits    *)
(* and 52 fraction bits, the fraction kept as its high 23 and low 29 bits; *)
(* a float is sign, 8 exponent bits and 23 fraction bits.                  *)
(***************************************************************************)
DSign(d) == d[1] \div 128
DExp(d) == (d[1] % 128) * 16 + d[2] \div 16
DFracHi(d) == (d[2] % 16) * 524288 + d[3] * 2048 + d[4] * 8 + d[5] \div 32
DFracLo(d) == (d[5] % 32) * 16777216 + d[6] * 65536 + d[7] * 256 + d[8]

MakeDouble(s, e, fh, fl) ==
    << s * 128 + e \div 16,
       (e % 16) * 16 + fh \div 524288,
       (fh \div 2048) % 256,
       (fh \div 8) % 256,
       (fh % 8) * 32 + fl \div 16777216,
       (fl \div 65536) % 256,
       (fl \div 256) % 256,
       fl % 256 >>

FSign(f) == f[1] \div 128
FExp(f) == (f[1] % 128) * 2 + f[2] \div 128
FFrac(f) == (f[2] % 128) * 65536 + f[3] * 256 + f[4]

\* em is the exponent field and the fraction as one 31-bit number
MakeFloat(s, em) ==
    << s * 128 + em \div 16777216, (em \div 65536) % 256, (em \div 256) % 256, em % 256 >>

\* std::isnan on a double
isnan(d) == DExp(d) = 2047 /\ (DFracHi(d) # 0 \/ DFracLo(d) # 0)

DIsZero(d) == DExp(d) = 0 /\ DFracHi(d) = 0 /\ DFracLo(d) = 0

\* operator== on two doubles
DoubleEq(a, b) ==
    /\ ~isnan(a)
    /\ ~isnan(b)
    /\ (a = b \/ (DIsZero(a) /\ DIsZero(b)))

RECURSIVE TopBit(_)
\* position of the most significant set bit of m > 0
TopBit(m) == IF m < 2 THEN 0 ELSE 1 + TopBit(m \div 2)

\* const float f = value: conversion in round-to-nearest-even
DoubleToFloat(d) ==
    LET s == DSign(d)
        e == DExp(d)
        fh == DFracHi(d)
        fl == DFracLo(d)
    IN  IF e = 2047 THEN
            IF fh = 0 /\ fl = 0 THEN MakeFloat(s, 255 * 8388608)
            ELSE MakeFloat(s, 255 * 8388608 + (IF fh < 4194304 THEN fh + 4194304 ELSE fh))
        ELSE IF e = 0 THEN MakeFloat(s, 0)
        ELSE IF e >= 1151 THEN MakeFloat(s, 255 * 8388608)
        ELSE IF e >= 897 THEN
            LET up == fl > 268435456 \/ (fl = 268435456 /\ fh % 2 = 1)
            IN  MakeFloat(s, (e - 896) * 8388608 + fh + (IF up THEN 1 ELSE 0))
        ELSE IF 897 - e > 24 THEN MakeFloat(s, 0)
        ELSE
            LET sh == 897 - e
                sig == 8388608 + fh
                q == sig \div Pow2(sh)
                r == sig % Pow2(sh)
                half == Pow2(sh - 1)
                up == r > half \/ (r = half /\ (fl > 0 \/ q % 2 = 1))
            IN  MakeFloat(s, q + (IF up THEN 1 ELSE 0))

\* static_cast<double>(f): exact
FloatToDouble(f) ==
    LET s == FSign(f)
        e == FExp(f)
        m == FFrac(f)
    IN  IF e = 255 THEN MakeDouble(s, 2047, m, 0)
        ELSE IF e = 0 THEN
            IF m = 0 THEN MakeDouble(s, 0, 0, 0)
            ELSE LET p == TopBit(m)
                 IN  MakeDouble(s, p + 874, ((m - Pow2(p)) * Pow2(23 - p)) % 8388608, 0)
        ELSE MakeDouble(s, e + 896, m, 0)

\* std::fpclassify on a float
fpclassify(f) ==
    IF FExp(f) = 255 THEN (IF FFrac(f) = 0 THEN "FP_INFINITE" ELSE "FP_NAN")
    ELSE IF FExp(f) = 0 THEN (IF FFrac(f) = 0 THEN "FP_ZERO" ELSE "FP_SUBNORMAL")
    ELSE "FP_NORMAL"

\* conversion of a small integer to std::int8_t
ToInt8(x) == ((x + 128) % 256) - 128

\* the test lossless_float16 makes before it reassembles a binary16
Float16FitsAnyFraction(normalized_exponent, fraction) ==
    normalized_exponent >= -14 /\ normalized_exponent <= 15

Float16Fits(normalized_exponent, fraction) ==
    normalized_exponent >= -14 /\ normalized_exponent <= 15 /\ fraction % 8192 = 0

\* lossless_float16: [some, v] with v the two bytes
NoFloat16 == [some |-> FALSE, v |-> <<0, 0>>]

lossless_float16(value) ==
    LET class == fpclassify(value)
        bytes == to_be_bytes(value)
        sign == BitAnd(bytes[1], 128) # 0
        exponent == BitOr(Shl(BitAnd(bytes[1], 127), 1), Shr(BitAnd(bytes[2], 128), 7))
        normalized_exponent == ToInt8(exponent - 127)
        fraction == BitAnd(bytes[2], 127) * 65536 + bytes[3] * 256 + bytes[4]
        biased_exponent == ToByte(normalized_exponent + 15)
    IN  IF class = "FP_ZERO" THEN
            [some |-> TRUE, v |-> <<IF FSign(value) = 1 THEN 128 ELSE 0, 0>>]
        ELSE IF class = "FP_INFINITE" THEN
            [some |-> TRUE, v |-> <<IF FSign(value) = 1 THEN BitOr(124, 128) ELSE 124, 0>>]
        ELSE IF class = "FP_NAN" THEN
            [some |-> TRUE, v |-> <<126, 0>>]
        ELSE IF Float16Fits(normalized_exponent, fraction) THEN
            [some |-> TRUE,
             v |-> << BitOr(BitOr(IF sign THEN 128 ELSE 0, ToByte(biased_exponent * 4)),
                            ToByte(fraction \div 2097152)),
                      ToByte(fraction \div 8192) >>]
        ELSE NoFloat16

read_float16_flush_subnormal(input) ==
    LET sign == BitAnd(input[1], 128) # 0
        exponent == Shr(BitAnd(input[1], 124), 2)
        fraction == BitAnd(input[1], 3) * 256 + input[2]
        s == IF sign THEN 1 ELSE 0
    IN  IF exponent = 0 THEN MakeFloat(s, 0)
        ELSE IF exponent = 31 THEN
            IF fraction = 0 THEN MakeFloat(s, 255 * 8388608)
            ELSE MakeFloat(0, 255 * 8388608 + 4194304)
        ELSE MakeFloat(s, (exponent + 112) * 8388608 + fraction * 8192)

\* read_float16: the float a binary16 bit pattern stands for
read_float16(input) ==
    LET sign == BitAnd(input[1], 128) # 0
        exponent == Shr(BitAnd(input[1], 124), 2)
        fraction == BitAnd(input[1], 3) * 256 + input[2]
        s == IF sign THEN 1 ELSE 0
    IN  IF exponent = 0 THEN
            IF fraction = 0 THEN MakeFloat(s, 0)
            ELSE
                \* fraction / 2^10 * 2^-14, exact in float
                LET p == TopBit(fraction)
                IN  MakeFloat(s, (p + 103) * 8388608 + (fraction - Pow2(p)) * Pow2(23 - p))
        ELSE IF exponent = 31 THEN
            IF fraction = 0 THEN MakeFloat(s, 255 * 8388608)
            ELSE MakeFloat(0, 255 * 8388608 + 4194304)
        ELSE
            LET normalized_exponent == ToInt8(exponent) - 15
                biased_exponent == ToByte(normalized_exponent + 127)
                b0 == BitOr(IF sign THEN 128 ELSE 0, Shr(biased_exponent, 1))
                b1 == BitOr(Shl(biased_exponent, 7), ToByte(fraction \div 8))
                b2 == ToByte(fraction * 32)
            IN  from_be_bytes(<<b0, b1, b2, 0>>)

(***************************************************************************)
(* Float, the Value tree and the encoder                                   *)
(*                                                                         *)
(* A Value is a record with the alternative of its Variant in kind.  The   *)
(* children of an Array, a Map or a SemanticTag are std::unique_ptr<Value>:*)
(* addresses into heap.  A Map (std::map keyed by unique_ptr) is the set   *)
(* of its <<key address, value address>> entries, iterated by key address. *)
(***************************************************************************)

\* Float::encode: the five-byte array and the length reported with it.
\* junk is what the bytes of the array that were never written hold.
\* overrun: write_header wrote past the end of the array.
Float_encode(value, junk) ==
    LET f == DoubleToFloat(value)
        Put(bytes) == [i \in 1..5 |-> IF i <= Len(bytes) THEN bytes[i] ELSE junk]
    IN  IF isnan(value) \/ DoubleEq(FloatToDouble(f), value) THEN
            LET float16 == lossless_float16(f)
            IN  IF float16.some THEN
                    [output |-> Put(write_header(Header(SpecialFloat,
                                        Count(2, from_be_bytes(float16.v))))),
                     n |-> 2, overrun |-> FALSE]
                ELSE
                    [output |-> Put(write_header(Header(SpecialFloat,
                                        Count(3, from_be_bytes(to_be_bytes(f)))))),
                     n |-> 4, overrun |-> FALSE]
        ELSE
            [output |-> Put(write_header(Header(SpecialFloat,
                                Count(4, from_be_bytes(to_be_bytes(value)))))),
             n |-> 8, overrun |-> TRUE]

\* Float::operator==: encode() == other.encode(), the two tuples of a
\* five-byte array and a length.  jv and jo are what the never-written bytes
\* of the one and of the other array hold.
Float_eq(value, other, jv, jo) ==
    LET a == Float_encode(value, jv)
        b == Float_encode(other, jo)
    IN  a.output = b.output /\ a.n = b.n

\* Float::operator<=>: encode() <=> other.encode(), the arrays byte by byte,
\* then the lengths
Float_cmp(value, other, jv, jo) ==
    LET a == Float_encode(value, jv)
        b == Float_encode(other, jo)
        differ == {i \in 1..5 : a.output[i] # b.output[i]}
        first == CHOOSE i \in differ : \A j \in differ : i <= j
    IN  IF differ # {} THEN (IF a.output[first] < b.output[first] THEN "less" ELSE "greater")
        ELSE IF a.n < b.n THEN "less"
        ELSE IF a.n > b.n THEN "greater"
        ELSE "equal"

\* EncodingVisitor::operator()(const Float): copies the first n bytes of the
\* array; the bytes read past its end are junk
VisitFloat(value, junk) ==
    LET cbor == Float_encode(value, junk)
    IN  [i \in 1..cbor.n |-> IF i <= 5 THEN cbor.output[i] ELSE junk]

\* the entries of a Map in iteration order (by key address)
RECURSIVE MapOrder(_)
MapOrder(entries) ==
    IF entries = {} THEN <<>>
    ELSE LET first == CHOOSE e \in entries : \A o \in entries : e[1] <= o[1]
         IN  <<first>> \o MapOrder(entries \ {first})

RECURSIVE EncodeValue(_, _, _)

VisitArrayBackwards(h, value, junk) ==
    LET RECURSIVE Cat(_)
        Cat(i) == IF i < 1 THEN <<>>
                  ELSE EncodeValue(h, h[value[i]], junk) \o Cat(i - 1)
    IN  write_header(HeaderOf(Array, Num(Len(value), 8))) \o Cat(Len(value))

\* EncodingVisitor::operator()(const Array &): the header, then
\* item->to_cbor for each item
VisitArray(h, value, junk) ==
    LET RECURSIVE Cat(_)
        Cat(i) == IF i > Len(value) THEN <<>>
                  ELSE EncodeValue(h, h[value[i]], junk) \o Cat(i + 1)
    IN  write_header(HeaderOf(Array, Num(Len(value), 8))) \o Cat(1)

\* EncodingVisitor::operator()(const Map &): the header, then key->to_cbor
\* and val->to_cbor for each entry
VisitMap(h, value, junk) ==
    LET order == MapOrder(value)
        RECURSIVE Cat(_)
        Cat(i) == IF i > Len(order) THEN <<>>
                  ELSE EncodeValue(h, h[order[i][1]], junk)
                       \o EncodeValue(h, h[order[i][2]], junk) \o Cat(i + 1)
    IN  write_header(HeaderOf(Map, Num(Cardinality(value), 8))) \o Cat(1)

\* EncodingVisitor::operator()(const SemanticTag &)
VisitSemanticTag(h, value, junk) ==
    write_header(HeaderOf(SemanticTag, value.id)) \o EncodeValue(h, h[value.value], junk)

\* Value::to_cbor, std::visit of EncodingVisitor on the Value v with heap h
EncodeValue(h, v, junk) ==
        CASE v.kind = "Positive" -> write_header(HeaderOf(PositiveInteger, v.count))
          [] v.kind = "Negative" -> write_header(HeaderOf(NegativeInteger, v.count))
          [] v.kind = "Bytestring" ->
                write_header(HeaderOf(ByteString, Num(Len(v.value), 8))) \o v.value
          [] v.kind = "Utf8String" ->
                write_header(HeaderOf(Utf8String, Num(Len(v.value), 8))) \o v.value
          [] v.kind = "Array" -> VisitArray(h, v.items, junk)
          [] v.kind = "Map" -> VisitMap(h, v.entries, junk)
          [] v.kind = "SemanticTag" -> VisitSemanticTag(h, v, junk)
          [] v.kind = "bool" ->
                write_header(HeaderOf(SpecialFloat, Num(IF v.b THEN 21 ELSE 20, 8)))
          [] v.kind = "nullptr" -> write_header(HeaderOf(SpecialFloat, Num(22, 8)))
          [] v.kind = "monostate" -> write_header(HeaderOf(SpecialFloat, Num(23, 8)))
          [] v.kind = "Float" -> VisitFloat(v.value, junk)

\* Bytestring::encode
Bytestring_encode(value) ==
    write_header(HeaderOf(Utf8String, Num(Len(value), 8))) \o value

\* Utf8String::encode
Utf8String_encode(value) ==
    write_header(HeaderOf(Utf8String, Num(Len(value), 8))) \o value

\* to_cbor for a sized range of std::byte
to_cbor_bytes(value) ==
    write_header(HeaderOf(ByteString, Num(Len(value), 8))) \o value

\* to_cbor for a sized range of char8_t or char
to_cbor_utf8(value) ==
    write_header(HeaderOf(Utf8String, Num(Len(value), 8))) \o value

\* to_cbor for an unsigned integer
to_cbor_unsigned(value) == write_header(HeaderOf(PositiveInteger, value))

\* a std::int64_t is its two's complement, most significant byte first
IsNegative(value) == value[1] >= 128

\* value + 1 on a 64-bit integer
PlusOne(value) ==
    LET open == {i \in 1..Len(value) : value[i] # 255}
        k == IF open = {} THEN 0 ELSE CHOOSE i \in open : \A j \in open : j <= i
    IN  [i \in 1..Len(value) |-> IF i < k THEN value[i] ELSE IF i = k THEN value[i] + 1 ELSE 0]

\* -value on a 64-bit integer
Negated(value) == PlusOne([i \in 1..Len(value) |-> 255 - value[i]])

\* std::abs on a std::int64_t that is not INT64_MIN
abs(value) == IF IsNegative(value) THEN Negated(value) ELSE value

\* Positive::is_valid_int64 and Positive::operator std::int64_t
Positive_is_valid_int64(count) == NumLt(count, <<128, 0, 0, 0, 0, 0, 0, 0>>)

Positive_int64(count) == Cast(count, 8)

\* Negative::is_valid_int64 and Negative::operator std::int64_t
Negative_is_valid_int64(count) == NumLt(count, <<127, 255, 255, 255, 255, 255, 255, 255>>)

Negative_int64(count) == Negated(PlusOne(Cast(count, 8)))

\* to_cbor for a signed integer, the count taken as std::abs(value)
to_cbor_signed_abs(value) ==
    IF IsNegative(value)
    THEN write_header(HeaderOf(NegativeInteger, abs(value)))
    ELSE write_header(HeaderOf(PositiveInteger, value))

\* to_cbor for a signed integer
to_cbor_signed(value) ==
    IF IsNegative(value)
    THEN write_header(HeaderOf(NegativeInteger, abs(PlusOne(value))))
    ELSE write_header(HeaderOf(PositiveInteger, value))

\* to_cbor for a floating-point value
to_cbor_float(value) ==
    LET d == value
        f == DoubleToFloat(value)
    IN  IF isnan(d) \/ DoubleEq(FloatToDouble(f), d) THEN
            LET float16 == lossless_float16(f)
            IN  IF float16.some THEN
                    write_header(Header(SpecialFloat, Count(2, from_be_bytes(float16.v))))
                ELSE
                    write_header(Header(SpecialFloat, Count(3, from_be_bytes(to_be_bytes(f)))))
        ELSE write_header(Header(SpecialFloat, Count(4, from_be_bytes(to_be_bytes(d)))))

(***************************************************************************)
(* Decoders.  An outcome is [st, pos, value]: st is "ok" or the exception  *)
(* thrown ("trap" when the program is killed), pos the index of the next   *)
(* unread byte, value the Value or native value produced.                  *)
(***************************************************************************)
Undefined == [kind |-> "monostate"]

Thrown(what) == [st |-> what, pos |-> 0, value |-> Undefined]

Returned(pos, value) == [st |-> "ok", pos |-> pos, value |-> value]

\* std::optional<std::uint64_t>::value() on the result of get_count
CountValue(count) ==
    IF count.st = "nullopt" THEN "bad_optional_access" ELSE count.st

\* std::vector<std::byte>::max_size() is 2^63 - 1: reserve throws above it
ExceedsMaxSize(count) == count[1] >= 128

\* Value::from_cbor on the whole of input.  contiguous: whether InputIt is a
\* contiguous iterator.  u: what the call yields where control flows off
\* the end of the function without a return.
Value_from_cbor(input, contiguous, u) ==
    LET r == read_header(input, 1)
        header == r.header
        count == get_count(header)
        left == Len(input) - r.pos + 1
    IN  IF r.err # "none" THEN Thrown(r.err)
        ELSE IF header.type = PositiveInteger THEN
            IF count.st = "value"
            THEN Returned(r.pos, [kind |-> "Positive", count |-> count.v])
            ELSE Thrown(CountValue(count))
        ELSE IF header.type = NegativeInteger THEN
            IF count.st = "value"
            THEN Returned(r.pos, [kind |-> "Negative", count |-> count.v])
            ELSE Thrown(CountValue(count))
        ELSE IF header.type = ByteString THEN
            IF count.st = "SpecialCountError" THEN Thrown(count.st)
            ELSE IF count.st = "nullopt" THEN
                Returned(r.pos, [kind |-> "Bytestring", value |-> <<>>])
            ELSE IF ExceedsMaxSize(count.v) THEN Thrown("length_error")
            ELSE IF ~contiguous THEN
                Returned(r.pos, [kind |-> "Bytestring", value |-> <<>>])
            ELSE IF NumLt(Num(left, 8), count.v) THEN Thrown("EndOfInput")
            ELSE Returned(r.pos, [kind |-> "Bytestring",
                                  value |-> SubSeq(input, r.pos, r.pos + Small(count.v) - 1)])
        ELSE u

\* from_cbor(input, header, value) for an unsigned integer
from_cbor_unsigned(pos, header) ==
    LET count == get_count(header)
    IN  IF header.type # PositiveInteger THEN Thrown("InvalidType")
        ELSE IF count.st # "value" THEN Thrown(CountValue(count))
        ELSE Returned(pos, [kind |-> "uint64", value |-> count.v])

\* from_cbor(input, header, value) for a std::int64_t.  u: what the call
\* yields where the negation overflows.
from_cbor_signed(pos, header, u) ==
    LET count == get_count(header)
    IN  IF header.type = NegativeInteger THEN
            IF count.st # "value" THEN Thrown(CountValue(count))
            ELSE IF count.v = <<128, 0, 0, 0, 0, 0, 0, 0>> THEN u
            ELSE Returned(pos, [kind |-> "int64",
                                value |-> [i \in 1..8 |-> 255 - count.v[i]]])
        ELSE IF header.type = PositiveInteger THEN
            IF count.st # "value" THEN Thrown(CountValue(count))
            ELSE Returned(pos, [kind |-> "int64", value |-> count.v])
        ELSE Thrown("InvalidType")

\* from_cbor(input, header, value) for a bool
from_cbor_bool(pos, header) ==
    LET count == get_count(header)
    IN  IF header.type # SpecialFloat THEN Thrown("InvalidType")
        ELSE IF count.st # "value" THEN Thrown(CountValue(count))
        ELSE IF count.v = Num(20, 8) THEN Returned(pos, [kind |-> "bool", b |-> FALSE])
        ELSE IF count.v = Num(21, 8) THEN Returned(pos, [kind |-> "bool", b |-> TRUE])
        ELSE Thrown("InvalidType")

\* from_cbor(input, header, value) for a std::nullptr_t
from_cbor_nullptr(pos, header) ==
    LET count == get_count(header)
    IN  IF header.type # SpecialFloat THEN Thrown("InvalidType")
        ELSE IF count.st # "value" THEN Thrown(CountValue(count))
        ELSE IF count.v = Num(22, 8) THEN Returned(pos, [kind |-> "nullptr"])
        ELSE Thrown("InvalidType")

\* from_cbor(input, header, value) for a std::optional of an unsigned
\* integer; input starts at pos, after the header.  On null the begin of
\* input is incremented: with no byte left that is an increment of the end
\* iterator, which a build with checked iterators (hardened) traps on.
from_cbor_optional(input, pos, header, hardened) ==
    IF header = HeaderOf(SpecialFloat, Num(22, 8)) THEN
        IF pos > Len(input) /\ hardened THEN Thrown("trap")
        ELSE Returned(pos + 1, [kind |-> "optional", has_value |-> FALSE, v |-> Zeros(8)])
    ELSE
        LET inner == from_cbor_unsigned(pos, header)
        IN  IF inner.st # "ok" THEN inner
            ELSE Returned(inner.pos, [kind |-> "optional", has_value |-> TRUE,
                                      v |-> inner.value.value])

\* from_cbor(range, value) for a bool, a std::nullptr_t and a std::optional
DecodeBool(input) ==
    LET r == read_header(input, 1)
    IN  IF r.err # "none" THEN Thrown(r.err) ELSE from_cbor_bool(r.pos, r.header)

DecodeNullptr(input) ==
    LET r == read_header(input, 1)
    IN  IF r.err # "none" THEN Thrown(r.err) ELSE from_cbor_nullptr(r.pos, r.header)

DecodeOptional(input, hardened) ==
    LET r == read_header(input, 1)
    IN  IF r.err # "none" THEN Thrown(r.err)
        ELSE from_cbor_optional(input, r.pos, r.header, hardened)

\* from_cbor(range, value) for an integer: read the header, then decode
\* under it
DecodeUnsigned(input) ==
    LET r == read_header(input, 1)
    IN  IF r.err # "none" THEN Thrown(r.err) ELSE from_cbor_unsigned(r.pos, r.header)

DecodeSigned(input, u) ==
    LET r == read_header(input, 1)
    IN  IF r.err # "none" THEN Thrown(r.err) ELSE from_cbor_signed(r.pos, r.header, u)

\* from_cbor(input, header, value) for a floating-point value: the double
\* stored into value
from_cbor_float(pos, header) ==
    IF header.type # SpecialFloat THEN Thrown("InvalidType")
    ELSE IF header.count.arm \in {0, 1} THEN Thrown("InvalidType")
    ELSE IF header.count.arm = 2 THEN
        Returned(pos, [kind |-> "Float",
                       value |-> FloatToDouble(read_float16(to_be_bytes(header.count.v)))])
    ELSE IF header.count.arm = 3 THEN
        Returned(pos, [kind |-> "Float",
                       value |-> FloatToDouble(from_be_bytes(to_be_bytes(header.count.v)))])
    ELSE
        Returned(pos, [kind |-> "Float", value |-> from_be_bytes(to_be_bytes(header.count.v))])

\* from_cbor(range) for a double: read the header, then decode under it
DecodeFloat(input) ==
    LET r == read_header(input, 1)
    IN  IF r.err # "none" THEN Thrown(r.err) ELSE from_cbor_float(r.pos, r.header)

\* a throw out of a call that filled the caller's container or output first:
\* value is what the caller's object holds when the exception leaves
Failed(what, pos, value) == [st |-> what, pos |-> pos, value |-> value]

\* the intermediate result of a decode into the caller's object
Partial(pos, value) == [st |-> "ok", pos |-> pos, value |-> value]

RECURSIVE from_cbor_string(_, _, _, _, _)
RECURSIVE StringChunks(_, _, _, _)
\* from_cbor(input, header, value) into a container of std::byte (type
\* ByteString) or of char8_t or char (type Utf8String).  value is what the
\* container holds; the bytes read are pushed into it one at a time.
from_cbor_string(input, pos, header, value, type) ==
    IF header.type # type THEN Failed("InvalidType", pos, value)
    ELSE
        LET count == get_count(header)
            left == Len(input) - pos + 1
        IN  IF count.st = "SpecialCountError" THEN Failed(count.st, pos, value)
            ELSE IF count.st = "value" THEN
                IF NumLt(Num(left, 8), count.v) THEN
                    Failed("EndOfInput", Len(input) + 1,
                           value \o SubSeq(input, pos, Len(input)))
                ELSE
                    Partial(pos + Small(count.v),
                            value \o SubSeq(input, pos, pos + Small(count.v) - 1))
            ELSE StringChunks(input, pos, value, type)

StringChunksBeforeBreak(input, pos, value, type) ==
    LET r == read_header(input, pos)
        count == get_count(r.header)
    IN  IF r.err # "none" THEN Failed(r.err, r.pos, value)
        ELSE IF r.header = HeaderIndefinite(SpecialFloat) THEN Partial(pos, value)
        ELSE IF count.st # "value" THEN Failed(CountValue(count), r.pos, value)
        ELSE
            LET chunk == from_cbor_string(input, r.pos, r.header, value, type)
            IN  IF chunk.st # "ok" THEN chunk
                ELSE StringChunks(input, chunk.pos, chunk.value, type)

StringChunksAnyBreak(input, pos, value, type) ==
    LET r == read_header(input, pos)
        count == get_count(r.header)
    IN  IF r.err # "none" THEN Failed(r.err, r.pos, value)
        ELSE IF count.st = "nullopt" THEN Partial(r.pos, value)
        ELSE IF count.st # "value" THEN Failed(CountValue(count), r.pos, value)
        ELSE
            LET chunk == from_cbor_string(input, r.pos, r.header, value, type)
            IN  IF chunk.st # "ok" THEN chunk
                ELSE StringChunks(input, chunk.pos, chunk.value, type)

\* the loop over the chunks of an indefinite-length string, up to the break
StringChunks(input, pos, value, type) ==
    LET r == read_header(input, pos)
        count == get_count(r.header)
    IN  IF r.err # "none" THEN Failed(r.err, r.pos, value)
        ELSE IF r.header = HeaderIndefinite(SpecialFloat) THEN Partial(r.pos, value)
        ELSE IF count.st # "value" THEN Failed(CountValue(count), r.pos, value)
        ELSE
            LET chunk == from_cbor_string(input, r.pos, r.header, value, type)
            IN  IF chunk.st # "ok" THEN chunk
                ELSE StringChunks(input, chunk.pos, chunk.value, type)

RECURSIVE from_cbor_contiguous(_, _, _, _, _, _)
RECURSIVE ContiguousChunks(_, _, _, _, _)
RECURSIVE ContiguousLoop(_, _, _, _, _, _)
\* from_cbor(input, header, value) from a contiguous range into an output
\* iterator.  value is what was written through the iterator.  end is begin
\* advanced by the count as a difference_type: a count of 2^63 and more moves
\* it backwards; a count above the bytes left moves it past the end of the
\* range, which a build with checked iterators (hardened) traps on and any
\* other compares greater than the end.
from_cbor_contiguous(input, pos, header, value, type, hardened) ==
    IF header.type # type THEN Failed("InvalidType", pos, value)
    ELSE
        LET count == get_count(header)
            left == Len(input) - pos + 1
            back == Negated(count.v)
        IN  IF count.st = "SpecialCountError" THEN Failed(count.st, pos, value)
            ELSE IF count.st = "value" THEN
                IF count.v[1] >= 128 THEN
                    IF hardened THEN Failed("trap", 0, value)
                    ELSE IF NumLt(back, Num(pos, 8)) THEN Partial(pos - Small(back), value)
                    ELSE Partial(0, value)
                ELSE IF NumLt(Num(left, 8), count.v) THEN
                    IF hardened THEN Failed("trap", 0, value)
                    ELSE Failed("EndOfInput", pos, value)
                ELSE
                    Partial(pos + Small(count.v),
                            value \o SubSeq(input, pos, pos + Small(count.v) - 1))
            ELSE ContiguousChunks(input, pos, value, type, hardened)

\* the loop over the chunks of an indefinite-length string, up to the break
ContiguousChunks(input, pos, value, type, hardened) ==
    ContiguousLoop(input, pos, value, type, hardened, {})

\* the same loop, seen the positions it has read a chunk header at.  A chunk
\* that moves the cursor back copies nothing, so the loop that comes to a
\* position a second time goes round for ever: the call does not return
\* ("loops").  A cursor before the start of the buffer is followed no
\* further, the program taken as killed.
ContiguousLoop(input, pos, value, type, hardened, seen) ==
    LET r == read_header(input, pos)
        count == get_count(r.header)
    IN  IF pos < 1 THEN Failed("trap", 0, value)
        ELSE IF pos \in seen THEN Failed("loops", pos, value)
        ELSE IF r.err # "none" THEN Failed(r.err, r.pos, value)
        ELSE IF r.header = HeaderIndefinite(SpecialFloat) THEN Partial(r.pos, value)
        ELSE IF count.st # "value" THEN Failed(CountValue(count), r.pos, value)
        ELSE
            LET chunk == from_cbor_contiguous(input, r.pos, r.header, value, type, hardened)
            IN  IF chunk.st # "ok" THEN chunk
                ELSE ContiguousLoop(input, chunk.pos, chunk.value, type, hardened,
                                    seen \cup {pos})

\* from_cbor(range, value): read the header, then decode under it into the
\* caller's container, which held value
DecodeString(input, value, type) ==
    LET r == read_header(input, 1)
    IN  IF r.err # "none" THEN Failed(r.err, r.pos, value)
        ELSE from_cbor_string(input, r.pos, r.header, value, type)

DecodeContiguous(input, value, type, hardened) ==
    LET r == read_header(input, 1)
    IN  IF r.err # "none" THEN Failed(r.err, r.pos, value)
        ELSE from_cbor_contiguous(input, r.pos, r.header, value, type, hardened)

\* from_cbor(input, item) for an unsigned integer item: read the header at
\* pos, then decode under it
from_cbor_item(input, pos) ==
    LET r == read_header(input, pos)
    IN  IF r.err # "none" THEN Thrown(r.err) ELSE from_cbor_unsigned(r.pos, r.header)

RECURSIVE SizedItems(_, _, _, _, _)
\* the loop over the items of a sized array, i of count decoded so far
SizedItems(input, pos, value, count, i) ==
    IF ~NumLt(Num(i, 8), count) THEN Partial(pos, value)
    ELSE
        LET item == from_cbor_item(input, pos)
        IN  IF item.st # "ok" THEN Failed(item.st, pos, value)
            ELSE SizedItems(input, item.pos, Append(value, item.value.value), count, i + 1)

RECURSIVE IndefiniteItems(_, _, _)

IndefiniteItemsBeforeBreak(input, pos, value) ==
    LET r == read_header(input, pos)
        item == from_cbor_unsigned(r.pos, r.header)
    IN  IF r.err # "none" THEN Failed(r.err, r.pos, value)
        ELSE IF r.header = HeaderIndefinite(SpecialFloat) THEN Partial(pos, value)
        ELSE IF item.st # "ok" THEN Failed(item.st, r.pos, value)
        ELSE IndefiniteItems(input, item.pos, Append(value, item.value.value))

\* the loop over the items of an indefinite-length array, up to the break
IndefiniteItems(input, pos, value) ==
    LET r == read_header(input, pos)
        item == from_cbor_unsigned(r.pos, r.header)
    IN  IF r.err # "none" THEN Failed(r.err, r.pos, value)
        ELSE IF r.header = HeaderIndefinite(SpecialFloat) THEN Partial(r.pos, value)
        ELSE IF item.st # "ok" THEN Failed(item.st, r.pos, value)
        ELSE IndefiniteItems(input, item.pos, Append(value, item.value.value))

\* from_cbor(input, header, value) into a container of unsigned integers
from_cbor_array(input, pos, header, value) ==
    IF header.type # Array THEN Failed("InvalidType", pos, value)
    ELSE
        LET count == get_count(header)
        IN  IF count.st = "SpecialCountError" THEN Failed(count.st, pos, value)
            ELSE IF count.st = "value" THEN SizedItems(input, pos, value, count.v, 0)
            ELSE IndefiniteItems(input, pos, value)

RECURSIVE SizedPairs(_, _, _, _, _)
\* the loop over the pairs of a sized map, i of count decoded so far
SizedPairs(input, pos, value, count, i) ==
    IF ~NumLt(Num(i, 8), count) THEN Partial(pos, value)
    ELSE
        LET output_key == from_cbor_item(input, pos)
            output_value == from_cbor_item(input, output_key.pos)
        IN  IF output_key.st # "ok" THEN Failed(output_key.st, pos, value)
            ELSE IF output_value.st # "ok" THEN Failed(output_value.st, output_key.pos, value)
            ELSE SizedPairs(input, output_value.pos,
                            Append(value, <<output_key.value.value, output_value.value.value>>),
                            count, i + 1)

RECURSIVE IndefinitePairs(_, _, _)
\* the loop over the pairs of an indefinite-length map, up to the break
IndefinitePairs(input, pos, value) ==
    LET r == read_header(input, pos)
        output_key == from_cbor_unsigned(r.pos, r.header)
        output_value == from_cbor_item(input, output_key.pos)
    IN  IF r.err # "none" THEN Failed(r.err, r.pos, value)
        ELSE IF r.header = HeaderIndefinite(SpecialFloat) THEN Partial(r.pos, value)
        ELSE IF output_key.st # "ok" THEN Failed(output_key.st, r.pos, value)
        ELSE IF output_value.st # "ok" THEN Failed(output_value.st, output_key.pos, value)
        ELSE IndefinitePairs(input, output_value.pos,
                             Append(value, <<output_key.value.value, output_value.value.value>>))

\* from_cbor(input, header, value) into a container of pairs of unsigned
\* integers
from_cbor_map(input, pos, header, value) ==
    IF header.type # Map THEN Failed("InvalidType", pos, value)
    ELSE
        LET count == get_count(header)
        IN  IF count.st = "SpecialCountError" THEN Failed(count.st, pos, value)
            ELSE IF count.st = "value" THEN SizedPairs(input, pos, value, count.v, 0)
            ELSE IndefinitePairs(input, pos, value)

\* from_cbor(range, value): read the header, then decode under it into the
\* caller's container, which held value
DecodeArray(input, value) ==
    LET r == read_header(input, 1)
    IN  IF r.err # "none" THEN Failed(r.err, r.pos, value)
        ELSE from_cbor_array(input, r.pos, r.header, value)

DecodeMap(input, value) ==
    LET r == read_header(input, 1)
    IN  IF r.err # "none" THEN Failed(r.err, r.pos, value)
        ELSE from_cbor_map(input, r.pos, r.header, value)

(***************************************************************************)
(* The values and buffers the codec is run on                              *)
(***************************************************************************)
\* unsigned 64-bit counts around every boundary of the Count arms
U64Samples ==
    { Num(0, 8), Num(1, 8), Num(23, 8), Num(24, 8), Num(255, 8), Num(256, 8),
      Num(4660, 8), Num(65535, 8), Num(65536, 8), Num(16909060, 8),
      <<0, 0, 0, 0, 255, 255, 255, 255>>, <<0, 0, 0, 1, 0, 0, 0, 0>>,
      <<1, 2, 3, 4, 5, 6, 7, 8>>, <<127, 255, 255, 255, 255, 255, 255, 255>>,
      <<127, 255, 255, 255, 255, 255, 255, 254>>,
      <<128, 0, 0, 0, 0, 0, 0, 0>>, <<255, 255, 255, 255, 255, 255, 255, 255>> }

\* doubles as <<exponent field, high 23 fraction bits, low 29 fraction bits>>:
\* zeros, infinities, NaNs, binary16 normals and subnormals, values that
\* need binary32, values that need binary64
DoubleFields ==
    { <<0, 0, 0>>, <<2047, 0, 0>>,
      <<2047, 4194304, 0>>, <<2047, 0, 1>>, <<2047, 1, 0>>, <<2047, 4194309, 77>>,
      <<1020, 2097152, 0>>, <<1023, 0, 0>>, <<1038, 8380416, 0>>, <<1009, 0, 0>>,
      <<1023, 8192, 0>>,
      <<999, 0, 0>>, <<1008, 0, 0>>, <<1000, 4194304, 0>>, <<1008, 8372224, 0>>,
      <<1008, 8380416, 0>>,
      <<1021, 2796203, 0>>, <<1039, 0, 0>>, <<1023, 4096, 0>>, <<1150, 8388607, 0>>,
      <<897, 0, 0>>, <<874, 0, 0>>, <<875, 4194304, 0>>, <<998, 0, 0>>, <<1023, 1, 0>>,
      <<1021, 2796202, 357913941>>, <<1023, 0, 1>>, <<1023, 1, 268435456>>,
      <<873, 0, 0>>, <<874, 4194304, 0>>, <<2046, 0, 0>>, <<1150, 8388607, 268435456>>,
      <<0, 0, 1>>, <<1023, 0, 268435456>> }

DoubleSamples == { MakeDouble(s, t[1], t[2], t[3]) : s \in {0, 1}, t \in DoubleFields }

\* the doubles two Floats that are compared hold: zeros, an infinity, NaNs,
\* a binary16 value, a binary16 subnormal, a binary32 value and two binary64
\* values that differ in their low bits
ComparedSamples ==
    { MakeDouble(s, t[1], t[2], t[3]) :
        s \in {0, 1},
        t \in { <<0, 0, 0>>, <<2047, 0, 0>>, <<2047, 4194304, 0>>, <<2047, 0, 1>>,
                <<1023, 0, 0>>, <<999, 0, 0>>, <<1023, 4096, 0>>,
                <<1023, 0, 1>>, <<1023, 0, 268435456>> } }

\* binary16 bit patterns: both signs, every exponent, fractions at both ends
\* and in the middle of the ten bits
HalfSamples ==
    { <<s * 128 + e * 4 + m \div 256, m % 256>> :
        s \in {0, 1}, e \in 0..31, m \in {0, 1, 2, 3, 341, 511, 512, 513, 682, 1022, 1023} }

\* the floats the doubles convert to
FloatSamples == { DoubleToFloat(d) : d \in DoubleSamples }

\* byte strings and UTF-8 strings of the lengths around the tiny-count boundary
StringSamples ==
    { <<>>, <<1>>, <<255>>, <<1, 3, 3, 7>>, <<49, 51, 51, 55>>,
      [i \in 1..23 |-> i], [i \in 1..24 |-> 97] }

\* std::int64_t values: the least and the greatest, and both sides of every
\* boundary of the Count arms
I64Samples ==
    { Num(0, 8), Num(1, 8), Num(23, 8), Num(24, 8), Num(65536, 8),
      <<127, 255, 255, 255, 255, 255, 255, 255>>,
      <<128, 0, 0, 0, 0, 0, 0, 0>>, <<128, 0, 0, 0, 0, 0, 0, 1>>,
      <<255, 255, 255, 255, 255, 255, 255, 255>>, <<255, 255, 255, 255, 255, 255, 255, 250>>,
      <<255, 255, 255, 255, 255, 255, 255, 232>>, <<255, 255, 255, 255, 255, 255, 255, 231>>,
      <<255, 255, 255, 255, 255, 255, 255, 0>>, <<255, 255, 255, 255, 255, 255, 254, 255>>,
      <<255, 255, 255, 255, 255, 255, 0, 0>>, <<255, 255, 255, 255, 255, 254, 255, 255>>,
      <<255, 255, 255, 255, 0, 0, 0, 0>>, <<255, 255, 255, 254, 255, 255, 255, 255>> }

LeafValues ==
    {[kind |-> "Positive", count |-> n] : n \in U64Samples}
    \cup {[kind |-> "Negative", count |-> n] : n \in U64Samples}
    \cup {[kind |-> "Bytestring", value |-> b] : b \in StringSamples}
    \cup {[kind |-> "Utf8String", value |-> b] : b \in StringSamples}
    \cup {[kind |-> "bool", b |-> b] : b \in BOOLEAN}
    \cup {[kind |-> "nullptr"], [kind |-> "monostate"]}
    \cup {[kind |-> "Float", value |-> d] : d \in DoubleSamples}

\* buffers handed to the decoders as they are
InputSamples ==
    { <<244>>, <<245>>, <<246>>, <<247>>, <<255>>,
      <<5>>, <<24>>, <<28>>, <<31>>, <<63>>, <<27, 0, 0, 0, 1, 0, 0, 0, 0>>,
      <<68, 1, 3, 3, 7>>, <<66, 1>>, <<95, 65, 1, 255>>, <<100, 49, 51, 51, 55>>,
      <<130, 1, 2>>, <<161, 1, 2>>, <<193, 5>>, <<248, 32>>, <<249, 126, 0>>,
      <<25, 1>>, <<26, 0, 0>>, <<27, 0, 0, 0, 1>>, <<88>>, <<120>>, <<97>>,
      <<91, 255, 255, 255, 255, 255, 255, 255, 255>>, <<91, 128, 0, 0, 0, 0, 0, 0, 0>>,
      <<95, 65, 1, 66, 2, 3, 255>>, <<95, 65, 1>>, <<95, 95, 255, 255>>,
      <<95, 97, 1, 255>>, <<95, 92, 255>>, <<127, 97, 97, 255>>, <<127, 98, 97>>,
      <<128>>, <<131, 1, 2>>, <<130, 1, 97, 97>>, <<159, 1, 24, 24, 255>>, <<159, 1, 2>>,
      <<159, 1, 31, 255>>, <<160>>, <<162, 1, 2, 3>>, <<162, 1, 2, 3, 4>>,
      <<191, 1, 2, 3, 4, 255>>, <<191, 1, 2, 3, 255>>, <<191, 1, 255>>,
      <<155, 255, 255, 255, 255, 255, 255, 255, 255, 1, 2>>,
      <<224>>, <<229>>, <<243>>, <<252>>, <<248, 0>>, <<248, 255>>,
      <<95, 255>>, <<95, 64, 255>>, <<95, 65, 255, 255, 1>>, <<127, 120, 1, 97, 97, 98, 255>>,
      <<95, 65, 1, 127, 255, 255>>, <<127, 97, 97, 65, 1, 255>>, <<95, 65, 1, 159, 255, 255>>,
      <<127, 127, 255, 255>>,
      <<159, 255>>, <<159, 1, 255, 2>>, <<159, 24, 255, 255>>, <<159, 255, 255>>,
      <<191, 255>>, <<191, 1, 24, 255, 255, 9>>, <<191, 255, 1, 2>>,
      <<246, 1>>, <<245, 0>>, <<248, 20>>, <<248, 21>>, <<248, 22>>, <<249, 0, 20>>,
      <<249, 0, 21>>, <<249, 0, 22>>, <<250, 0, 0, 0, 22>>, <<24, 100, 7>>, <<66, 1, 2, 3>>,
      <<88, 2, 1, 2, 3>>, <<96>>, <<64, 9>>,
      <<95, 91, 255, 255, 255, 255, 255, 255, 255, 247>>,
      <<127, 123, 255, 255, 255, 255, 255, 255, 255, 247, 255>>,
      <<95, 65, 1, 91, 255, 255, 255, 255, 255, 255, 255, 244, 255>> }

\* the payloads a Count is built from, per alternative
CountSamples ==
    {Count(0, Num(n, 1)) : n \in {0, 5, 23, 24, 27, 28, 30, 31, 32, 100, 255}}
        \cup {Count(1, Num(n, 1)) : n \in {0, 23, 24, 31, 255}}
        \cup {Count(2, v) : v \in {<<0, 0>>, <<0, 31>>, <<1, 0>>, <<255, 255>>}}
        \cup {Count(3, v) : v \in {<<0, 0, 0, 0>>, <<0, 1, 0, 0>>, <<255, 255, 255, 255>>}}
        \cup {Count(4, v) : v \in {Zeros(8), <<0, 0, 0, 1, 0, 0, 0, 0>>,
                                    <<255, 255, 255, 255, 255, 255, 255, 255>>}}

\* Header(type, count) built explicitly
HeaderSamples == {Header(type, count) : type \in MajorType, count \in CountSamples}

\* what the caller's container holds before a decode into it
ContainerSamples == {<<>>, <<7>>}
ArraySamples == {<<>>, <<Num(7, 8)>>}
MapSamples == {<<>>, <<<<Num(7, 8), Num(8, 8)>>>>}

\* what a byte that was never written, or lies past the end of an array, holds
JunkBytes == {0, 85, 255}

\* what a call yields after undefined behaviour: the program is killed, or it
\* goes on with an indeterminate result
UBOutcomes ==
    {Thrown("trap")}
    \cup { Returned(p, g) : p \in {0, 2},
           g \in {[kind |-> "monostate"], [kind |-> "bool", b |-> TRUE],
                  [kind |-> "Positive", count |-> Num(0, 8)]} }

NoEnc == [by |-> "none", st |-> "ok"]
NoDec == [op |-> "none", st |-> "ok", pos |-> 0, value |-> Undefined]
EmptyHeap == <<>>

Decoded(op, outcome) ==
    [op |-> op, st |-> outcome.st, pos |-> outcome.pos, value |-> outcome.value]

(***************************************************************************)
(* The codec on one value: the caller holds arg, encodes it into out and   *)
(* decodes out.                                                            *)
(***************************************************************************)
InitCodec ==
    /\ endian \in {"little", "big"}
    /\ arg \in LeafValues \cup {[kind |-> "input", value |-> b] : b \in InputSamples}
                \cup {[kind |-> "int64", value |-> v] : v \in I64Samples}
                \cup {[kind |-> "header", header |-> h] : h \in HeaderSamples}
                \cup {[kind |-> "float", value |-> f] : f \in FloatSamples}
                \cup {[kind |-> "half", value |-> b] : b \in HalfSamples}
                \cup {[kind |-> "floats", value |-> a, other |-> b] :
                          a \in ComparedSamples, b \in ComparedSamples}
    /\ enc = NoEnc
    /\ out = <<>>
    /\ dec = NoDec
    /\ heap = EmptyHeap

Emit(by, bytes) ==
    /\ enc' = [by |-> by, st |-> "ok"]
    /\ out' = bytes
    /\ dec' = NoDec
    /\ UNCHANGED <<endian, arg, heap>>

\* Value(arg).to_cbor(std::back_inserter(out))
ValueToCbor ==
    /\ arg \in LeafValues
    /\ \E junk \in JunkBytes, killed \in BOOLEAN :
          IF arg.kind = "Float" /\ Float_encode(arg.value, junk).overrun /\ killed THEN
              /\ enc' = [by |-> "Value::to_cbor", st |-> "trap"]
              /\ out' = <<>>
              /\ dec' = NoDec
              /\ UNCHANGED <<endian, arg, heap>>
          ELSE Emit("Value::to_cbor", EncodeValue(heap, arg, junk))

BytestringEncode ==
    /\ arg.kind = "Bytestring"
    /\ Emit("Bytestring::encode", Bytestring_encode(arg.value))

Utf8StringEncode ==
    /\ arg.kind = "Utf8String"
    /\ Emit("Utf8String::encode", Utf8String_encode(arg.value))

ToCborBytes ==
    /\ arg.kind = "Bytestring"
    /\ Emit("to_cbor(bytes)", to_cbor_bytes(arg.value))

ToCborUtf8 ==
    /\ arg.kind = "Utf8String"
    /\ Emit("to_cbor(utf8)", to_cbor_utf8(arg.value))

ToCborUnsigned ==
    /\ arg.kind = "Positive"
    /\ Emit("to_cbor(unsigned)", to_cbor_unsigned(arg.count))

ToCborSigned ==
    /\ arg.kind = "int64"
    /\ Emit("to_cbor(signed)", to_cbor_signed(arg.value))

ToCborFloat ==
    /\ arg.kind = "Float"
    /\ Emit("to_cbor(floating_point)", to_cbor_float(arg.value))

\* write_header(std::back_inserter(out), arg.header)
WriteHeader ==
    /\ arg.kind = "header"
    /\ Emit("write_header", write_header(arg.header))

\* read_header(out.begin(), out.end())
ReadHeader ==
    /\ enc.by # "none"
    /\ enc.st = "ok"
    /\ LET r == read_header(out, 1)
       IN  dec' = [op |-> "read_header",
                   st |-> IF r.err = "none" THEN "ok" ELSE r.err,
                   pos |-> r.pos, value |-> r.header]
    /\ UNCHANGED <<endian, arg, enc, out, heap>>

\* arg.header.get_count()
GetCount ==
    /\ arg.kind = "header"
    /\ LET count == get_count(arg.header)
       IN  dec' = [op |-> "get_count",
                   st |-> IF count.st = "SpecialCountError" THEN count.st ELSE "ok",
                   pos |-> 0,
                   value |-> [kind |-> "optional", has_value |-> count.st = "value",
                              v |-> count.v]]
    /\ UNCHANGED <<endian, arg, enc, out, heap>>

\* lossless_float16(arg.value), and read_float16 on the two bytes it returns
LosslessFloat16 ==
    /\ arg.kind = "float"
    /\ LET float16 == lossless_float16(arg.value)
       IN  dec' = [op |-> "lossless_float16", st |-> "ok", pos |-> 0,
                   value |-> [kind |-> "optional", has_value |-> float16.some,
                              v |-> float16.v,
                              back |-> IF float16.some THEN read_float16(float16.v)
                                       ELSE arg.value]]
    /\ UNCHANGED <<endian, arg, enc, out, heap>>

\* arg.is_valid_int64() and static_cast<std::int64_t>(arg) on a Positive or
\* a Negative
IsValidInt64 ==
    /\ arg \in LeafValues
    /\ arg.kind \in {"Positive", "Negative"}
    /\ dec' = [op |-> "is_valid_int64", st |-> "ok", pos |-> 0,
               value |-> [kind |-> "int64",
                          valid |-> IF arg.kind = "Positive"
                                    THEN Positive_is_valid_int64(arg.count)
                                    ELSE Negative_is_valid_int64(arg.count),
                          value |-> IF arg.kind = "Positive"
                                    THEN Positive_int64(arg.count)
                                    ELSE Negative_int64(arg.count)]]
    /\ UNCHANGED <<endian, arg, enc, out, heap>>

\* read_float16(arg.value)
ReadFloat16 ==
    /\ arg.kind = "half"
    /\ dec' = [op |-> "read_float16", st |-> "ok", pos |-> 0,
               value |-> [kind |-> "float", value |-> read_float16(arg.value)]]
    /\ UNCHANGED <<endian, arg, enc, out, heap>>

\* Float(arg.value) == Float(arg.other).  An encode() that wrote past its
\* array has undefined behaviour: the program is killed or goes on.
FloatEquals ==
    /\ arg.kind = "floats"
    /\ \E jv \in JunkBytes, jo \in JunkBytes, killed \in BOOLEAN :
          LET overrun == Float_encode(arg.value, jv).overrun \/ Float_encode(arg.other, jo).overrun
          IN  dec' = [op |-> "Float::operator==",
                      st |-> IF overrun /\ killed THEN "trap" ELSE "ok",
                      pos |-> 0,
                      value |-> [kind |-> "bool",
                                 b |-> IF overrun /\ killed THEN FALSE
                                       ELSE Float_eq(arg.value, arg.other, jv, jo)]]
    /\ UNCHANGED <<endian, arg, enc, out, heap>>

\* Float(arg.value) <=> Float(arg.other)
FloatThreeWay ==
    /\ arg.kind = "floats"
    /\ \E jv \in JunkBytes, jo \in JunkBytes, killed \in BOOLEAN :
          LET overrun == Float_encode(arg.value, jv).overrun \/ Float_encode(arg.other, jo).overrun
          IN  dec' = [op |-> "Float::operator<=>",
                      st |-> IF overrun /\ killed THEN "trap" ELSE "ok",
                      pos |-> 0,
                      value |-> [kind |-> "ordering",
                                 o |-> IF overrun /\ killed THEN "equal"
                                       ELSE Float_cmp(arg.value, arg.other, jv, jo)]]
    /\ UNCHANGED <<endian, arg, enc, out, heap>>

\* the caller hands over a buffer it got elsewhere
LoadInput ==
    /\ arg.kind = "input"
    /\ Emit("caller", arg.value)

ValueFromCbor ==
    /\ enc.by # "none"
    /\ enc.st = "ok"
    /\ \E contiguous \in BOOLEAN, u \in UBOutcomes :
          dec' = Decoded("Value::from_cbor", Value_from_cbor(out, contiguous, u))
    /\ UNCHANGED <<endian, arg, enc, out, heap>>

\* from_cbor(out, value) for a bool
FromCborBool ==
    /\ enc.by # "none"
    /\ enc.st = "ok"
    /\ dec' = Decoded("from_cbor(bool)", DecodeBool(out))
    /\ UNCHANGED <<endian, arg, enc, out, heap>>

\* from_cbor(out, nullptr)
FromCborNullptr ==
    /\ enc.by # "none"
    /\ enc.st = "ok"
    /\ dec' = Decoded("from_cbor(nullptr_t)", DecodeNullptr(out))
    /\ UNCHANGED <<endian, arg, enc, out, heap>>

\* from_cbor(out, value) for a std::optional<std::uint64_t>
FromCborOptional ==
    /\ enc.by # "none"
    /\ enc.st = "ok"
    /\ \E hardened \in BOOLEAN :
          dec' = Decoded("from_cbor(optional)", DecodeOptional(out, hardened))
    /\ UNCHANGED <<endian, arg, enc, out, heap>>

FromCborUnsigned ==
    /\ enc.by # "none"
    /\ enc.st = "ok"
    /\ dec' = Decoded("from_cbor(unsigned)", DecodeUnsigned(out))
    /\ UNCHANGED <<endian, arg, enc, out, heap>>

FromCborSigned ==
    /\ enc.by # "none"
    /\ enc.st = "ok"
    /\ \E u \in UBOutcomes : dec' = Decoded("from_cbor(signed)", DecodeSigned(out, u))
    /\ UNCHANGED <<endian, arg, enc, out, heap>>

\* from_cbor(out, value) into a container of std::byte, char8_t or char
FromCborString ==
    /\ enc.by # "none"
    /\ enc.st = "ok"
    /\ \E type \in {ByteString, Utf8String}, before \in ContainerSamples :
          LET r == DecodeString(out, before, type)
          IN  dec' = [op |-> "from_cbor(container)", type |-> type, before |-> before,
                      st |-> r.st, pos |-> r.pos, value |-> r.value]
    /\ UNCHANGED <<endian, arg, enc, out, heap>>

\* from_cbor(out, value) from a contiguous range into an output iterator
FromCborContiguous ==
    /\ enc.by # "none"
    /\ enc.st = "ok"
    /\ \E type \in {ByteString, Utf8String}, hardened \in BOOLEAN :
          LET r == DecodeContiguous(out, <<>>, type, hardened)
          IN  dec' = [op |-> "from_cbor(contiguous)", type |-> type, before |-> <<>>,
                      st |-> r.st, pos |-> r.pos, value |-> r.value]
    /\ UNCHANGED <<endian, arg, enc, out, heap>>

\* from_cbor(out, value) into a container of unsigned integers
FromCborArray ==
    /\ enc.by # "none"
    /\ enc.st = "ok"
    /\ \E before \in ArraySamples :
          LET r == DecodeArray(out, before)
          IN  dec' = [op |-> "from_cbor(array)", type |-> Array, before |-> before,
                      st |-> r.st, pos |-> r.pos, value |-> r.value]
    /\ UNCHANGED <<endian, arg, enc, out, heap>>

\* from_cbor(out, value) into a container of pairs of unsigned integers
FromCborMap ==
    /\ enc.by # "none"
    /\ enc.st = "ok"
    /\ \E before \in MapSamples :
          LET r == DecodeMap(out, before)
          IN  dec' = [op |-> "from_cbor(map)", type |-> Map, before |-> before,
                      st |-> r.st, pos |-> r.pos, value |-> r.value]
    /\ UNCHANGED <<endian, arg, enc, out, heap>>

FromCborFloat ==
    /\ enc.by # "none"
    /\ enc.st = "ok"
    /\ dec' = Decoded("from_cbor(floating_point)", DecodeFloat(out))
    /\ UNCHANGED <<endian, arg, enc, out, heap>>

NextCodec ==
    \/ ValueToCbor
    \/ BytestringEncode
    \/ Utf8StringEncode
    \/ ToCborBytes
    \/ ToCborUtf8
    \/ ToCborUnsigned
    \/ ToCborSigned
    \/ ToCborFloat
    \/ WriteHeader
    \/ ReadHeader
    \/ GetCount
    \/ LosslessFloat16
    \/ IsValidInt64
    \/ ReadFloat16
    \/ FloatEquals
    \/ FloatThreeWay
    \/ LoadInput
    \/ ValueFromCbor
    \/ FromCborUnsigned
    \/ FromCborSigned
    \/ FromCborString
    \/ FromCborBool
    \/ FromCborNullptr
    \/ FromCborOptional
    \/ FromCborContiguous
    \/ FromCborArray
    \/ FromCborMap
    \/ FromCborFloat

SpecCodec == InitCodec /\ [][NextCodec]_vars

(***************************************************************************)
(* Properties of the codec on one value                                    *)
(***************************************************************************)
\* the arm the smallest representation of an unsigned 64-bit n lies in
SmallestArm(n) ==
    IF \E i \in 1..4 : n[i] # 0 THEN 4
    ELSE IF n[5] # 0 \/ n[6] # 0 THEN 3
    ELSE IF n[7] # 0 THEN 2
    ELSE IF n[8] >= 24 THEN 1
    ELSE 0

\* the header of major type t and count n in its smallest form, n big-endian
SmallestHeader(t, n) ==
    LET arm == SmallestArm(n)
    IN  IF arm = 0 THEN <<t * 32 + n[8]>>
        ELSE <<t * 32 + 23 + arm>> \o SubSeq(n, 9 - ArmWidth(arm), 8)

\* C3: Header(type, n) picks the smallest Count arm that holds n, so
\* Positive(n) encodes to 1, 2, 3, 5 or 9 bytes: the initial byte and n in
\* big-endian in the arm's width.
C3_SmallestArm ==
    (enc.by = "Value::to_cbor" /\ arg.kind = "Positive") =>
        /\ HeaderOf(PositiveInteger, arg.count).count.arm = SmallestArm(arg.count)
        /\ Len(out) = CASE SmallestArm(arg.count) = 0 -> 1
                        [] SmallestArm(arg.count) = 1 -> 2
                        [] SmallestArm(arg.count) = 2 -> 3
                        [] SmallestArm(arg.count) = 3 -> 5
                        [] SmallestArm(arg.count) = 4 -> 9
        /\ out = SmallestHeader(PositiveInteger, arg.count)

C3_Witness ==
    /\ enc.by = "Value::to_cbor"
    /\ arg.kind = "Positive"
    /\ arg.count = <<0, 0, 0, 1, 0, 0, 0, 0>>
    /\ out = <<27, 0, 0, 0, 1, 0, 0, 0, 0>>

\* whether a double is a binary32 value (NaN counted in)
IsBinary32(d) ==
    LET e == DExp(d)
        fh == DFracHi(d)
        fl == DFracLo(d)
    IN  \/ e = 2047
        \/ DIsZero(d)
        \/ fl = 0 /\ e >= 897 /\ e <= 1150
        \/ fl = 0 /\ e >= 874 /\ e <= 896 /\ fh % Pow2(897 - e) = 0

\* whether a double is a binary16 value (NaN counted in)
IsBinary16(d) ==
    LET e == DExp(d)
        fh == DFracHi(d)
        fl == DFracLo(d)
    IN  \/ e = 2047
        \/ DIsZero(d)
        \/ fl = 0 /\ e >= 1009 /\ e <= 1038 /\ fh % 8192 = 0
        \/ fl = 0 /\ e >= 999 /\ e <= 1008 /\ fh % Pow2(1022 - e) = 0

\* C2: the encoding of Float(x) is 3, 5 or 9 bytes long, 0xF9, 0xFA or 0xFB
\* and the payload: 3 exactly when x is a binary16 value, 5 exactly when it
\* is a binary32 value but no binary16 value, 9 otherwise.
C2_FloatLength ==
    (enc.by = "Value::to_cbor" /\ arg.kind = "Float") =>
        /\ enc.st = "ok"
        /\ Len(out) \in {3, 5, 9}
        /\ out[1] = CASE Len(out) = 3 -> 249 [] Len(out) = 5 -> 250 [] OTHER -> 251
        /\ Len(out) = 3 <=> IsBinary16(arg.value)
        /\ Len(out) = 5 <=> (IsBinary32(arg.value) /\ ~IsBinary16(arg.value))

\* C8: every NaN encodes as Float to exactly 0xF9 0x7E 0x00.
C8_CanonicalNaN ==
    (enc.by = "Value::to_cbor" /\ arg.kind = "Float" /\ isnan(arg.value)) =>
        (enc.st = "ok" /\ out = <<249, 126, 0>>)

C7_StringMajorTypes ==
    /\ (arg.kind = "Bytestring"
        /\ enc.by \in {"Bytestring::encode", "Value::to_cbor", "to_cbor(bytes)"}) =>
            out = SmallestHeader(ByteString, Num(Len(arg.value), 8)) \o arg.value
    /\ (arg.kind = "Utf8String"
        /\ enc.by \in {"Utf8String::encode", "Value::to_cbor", "to_cbor(utf8)"}) =>
            out = SmallestHeader(Utf8String, Num(Len(arg.value), 8)) \o arg.value

\* the Value a one-byte special stands for
SpecialOf(byte) ==
    CASE byte = 244 -> [kind |-> "bool", b |-> FALSE]
      [] byte = 245 -> [kind |-> "bool", b |-> TRUE]
      [] byte = 246 -> [kind |-> "nullptr"]
      [] byte = 247 -> [kind |-> "monostate"]
      [] byte = 255 -> [kind |-> "Break"]

\* C10: false, true, null and undefined encode to the one byte 0xF4, 0xF5,
\* 0xF6, 0xF7 (Break to 0xFF), and decoding each of these bytes at top level
\* returns that Value, Break included.
C10_Specials ==
    /\ (enc.by = "Value::to_cbor" /\ arg.kind \in {"bool", "nullptr", "monostate"}) =>
            (Len(out) = 1 /\ SpecialOf(out[1]) = arg)
    /\ (dec.op = "Value::from_cbor" /\ out \in {<<244>>, <<245>>, <<246>>, <<247>>, <<255>>}) =>
            (dec.st = "ok" /\ dec.value = SpecialOf(out[1]) /\ dec.pos = 2)

ExtendedWidth(byte) ==
    CASE byte % 32 = 24 -> 1 [] byte % 32 = 25 -> 2 [] byte % 32 = 26 -> 4
      [] byte % 32 = 27 -> 8 [] OTHER -> 0

\* input ends inside the extended count of its header
CutHeader(input) == Len(input) >= 1 /\ Len(input) < 1 + ExtendedWidth(input[1])

\* input is a whole header of a definite-length string of major type type
\* and fewer bytes than its count
CutString(input, type) ==
    /\ Len(input) >= 1
    /\ ~CutHeader(input)
    /\ input[1] \div 32 = type
    /\ input[1] % 32 < 28
    /\ LET w == ExtendedWidth(input[1])
           n == IF w = 0 THEN Num(input[1] % 32, 8)
                ELSE Zeros(8 - w) \o SubSeq(input, 2, 1 + w)
       IN  NumLt(Num(Len(input) - 1 - w, 8), n)

\* C12: an input cut off inside the extended count of a header, or inside
\* the bytes of a definite-length string, fails with EndOfInput and gives
\* no value.
C12_EndOfInput ==
    /\ (dec.op # "none" /\ CutHeader(out)) => dec.st = "EndOfInput"
    /\ (dec.op = "Value::from_cbor" /\ CutString(out, ByteString)) => dec.st = "EndOfInput"
    /\ (dec.op \in {"from_cbor(container)", "from_cbor(contiguous)"}
        /\ CutString(out, dec.type)) => dec.st = "EndOfInput"

\* the failures of the library, all derived from varbor::Error
ErrorKinds == {"EndOfInput", "IllegalSpecialFloat", "SpecialCountError", "InvalidType"}

\* C13: a decode that produces no value fails with one of EndOfInput,
\* IllegalSpecialFloat, SpecialCountError and InvalidType, also on a header
\* of major type 0, 1 or 6 with the short count 31 and on an indefinite
\* chunk inside an indefinite-length string.
C13_ErrorKinds ==
    dec.op \in {"Value::from_cbor", "from_cbor(unsigned)", "from_cbor(signed)",
                "from_cbor(container)", "from_cbor(contiguous)",
                "from_cbor(array)", "from_cbor(map)", "from_cbor(bool)",
                "from_cbor(nullptr_t)", "from_cbor(optional)",
                "from_cbor(floating_point)"} =>
        dec.st \in ErrorKinds \cup {"ok"}

\* C14: when a decode into the caller's byte string, UTF-8 string, array or
\* map fails, the container holds what it held before the call.
C14_NoPartialResult ==
    (/\ dec.op \in {"from_cbor(container)", "from_cbor(array)", "from_cbor(map)"}
     /\ dec.st # "ok") =>
        dec.value = dec.before

\* a SpecialFloat header in arm 1, or in arm 0 with a tiny value other than
\* 20, 21, 22, 23 and 31
IllegalSpecial(input) ==
    /\ Len(input) >= 1
    /\ input[1] \div 32 = SpecialFloat
    /\ \/ input[1] % 32 = 24 /\ Len(input) >= 2
       \/ input[1] % 32 \in (0..19) \cup {28, 29, 30}

\* C15: decoding a SpecialFloat header in arm 1, or in arm 0 with a tiny value
\* other than 20, 21, 22, 23 and 31, fails with IllegalSpecialFloat.
C15_IllegalSpecialFloat ==
    (dec.op \in {"Value::from_cbor", "from_cbor(floating_point)"} /\ IllegalSpecial(out)) =>
        dec.st = "IllegalSpecialFloat"

\* C16: get_count returns the payload for every Count in arm 1 to 4; for arm
\* 0 it returns the tiny value when it is 0..23, returns empty when it is 31,
\* and raises SpecialCountError for every other value.
C16_GetCount ==
    dec.op = "get_count" =>
        LET count == arg.header.count
            payload == Zeros(8 - Len(count.v)) \o count.v
        IN  IF count.arm \in 1..4 \/ count.v[1] \in 0..23
            THEN dec.st = "ok" /\ dec.value.has_value /\ dec.value.v = payload
            ELSE IF count.v[1] = 31
            THEN dec.st = "ok" /\ ~dec.value.has_value
            ELSE dec.st = "SpecialCountError"

C16_Witness ==
    /\ dec.op = "get_count"
    /\ arg.header.count = Count(0, <<24>>)
    /\ dec.st = "SpecialCountError"

\* C20: the first byte written by write_header has the major type in its top
\* three bits, for every payload including arm-0 payloads above 31; its
\* bottom five bits are the arm-0 payload for arm 0 and 24, 25, 26, 27 for
\* arms 1, 2, 3, 4.
C20_InitialByte ==
    enc.by = "write_header" =>
        LET count == arg.header.count
        IN  /\ out[1] \div 32 = arg.header.type
            /\ out[1] % 32 = IF count.arm = 0 THEN count.v[1] % 32 ELSE 23 + count.arm

\* the float f is NaN
FIsNaN(f) == FExp(f) = 255 /\ FFrac(f) # 0

\* some binary16 value equals the non-NaN float f: a zero, an infinity, a
\* normal 1.m * 2^e with -14 <= e <= 15 and ten fraction bits, or a subnormal
\* k * 2^-24 with 1 <= k <= 1023
HasBinary16(f) ==
    LET e == FExp(f)
        m == FFrac(f)
    IN  \/ e = 0 /\ m = 0
        \/ e = 255 /\ m = 0
        \/ e >= 113 /\ e <= 142 /\ m % 8192 = 0
        \/ e >= 103 /\ e <= 112 /\ (8388608 + m) % Pow2(126 - e) = 0

\* C17: lossless_float16(f) returns a binary16 encoding if and only if some
\* binary16 value equals f exactly or f is NaN, and for non-NaN f the two
\* bytes decode through read_float16 back to exactly f.
C17_LosslessFloat16 ==
    dec.op = "lossless_float16" =>
        /\ dec.value.has_value <=> (FIsNaN(arg.value) \/ HasBinary16(arg.value))
        /\ (dec.value.has_value /\ ~FIsNaN(arg.value)) => dec.value.back = arg.value

\* two doubles with the same canonical encoding: both NaN, or the same
\* non-NaN double (so +0.0 and -0.0 differ)
SameFloat(a, b) == (isnan(a) /\ isnan(b)) \/ (~isnan(a) /\ ~isnan(b) /\ a = b)

\* C19: Float::operator== returns true exactly when both values are NaN or
\* both are the same non-NaN double, whatever else the program holds, and
\* operator<=> returns equal in exactly the same cases.
C19_FloatEquality ==
    /\ dec.op = "Float::operator==" =>
          (dec.st = "ok" /\ (dec.value.b <=> SameFloat(arg.value, arg.other)))
    /\ dec.op = "Float::operator<=>" =>
          (dec.st = "ok" /\ (dec.value.o = "equal" <=> SameFloat(arg.value, arg.other)))

\* the Counts write_header writes in a form read_header tells apart: arm 0
\* with 0..23 or 28..31, arms 1 to 4 with any payload
Readable(count) == count.arm \in 1..4 \/ count.v[1] \in (0..23) \cup (28..31)

\* C21: read_header on the bytes write_header wrote for a Header returns
\* the same major type, the same arm and the same payload, and consumes
\* exactly the 1, 2, 3, 5 or 9 bytes written.
C21_HeaderRoundTrip ==
    (enc.by = "write_header" /\ dec.op = "read_header" /\ Readable(arg.header.count)) =>
        /\ dec.st = "ok"
        /\ dec.value.type = arg.header.type
        /\ dec.value.count.arm = arg.header.count.arm
        /\ dec.value.count.v = arg.header.count.v
        /\ Len(out) = CASE arg.header.count.arm = 0 -> 1 [] arg.header.count.arm = 1 -> 2
                         [] arg.header.count.arm = 2 -> 3 [] arg.header.count.arm = 3 -> 5
                         [] arg.header.count.arm = 4 -> 9
        /\ dec.pos = Len(out) + 1

C21_Witness ==
    /\ enc.by = "write_header"
    /\ dec.op = "read_header"
    /\ arg.header = Header(ByteString, Count(2, <<0, 31>>))
    /\ out = <<89, 0, 31>>
    /\ dec.value = arg.header

RECURSIVE Chunks(_, _, _)
\* the chunks of an indefinite-length string of major type type, read off
\* the wire from position pos: how they end ("break", a "bad" chunk header
\* that is indefinite or of another major type, or "other"), the payloads
\* of the chunks before that one after the other, and the position after
\* the break
Chunks(input, pos, type) ==
    IF pos > Len(input) THEN [st |-> "other", payload |-> <<>>, end |-> pos]
    ELSE
        LET tiny == input[pos] % 32
            n == IF tiny = 24 /\ pos < Len(input) THEN input[pos + 1] ELSE tiny
            from == IF tiny = 24 THEN pos + 2 ELSE pos + 1
            rest == Chunks(input, from + n, type)
        IN  IF input[pos] = 255 THEN [st |-> "break", payload |-> <<>>, end |-> pos + 1]
            ELSE IF tiny = 31 \/ input[pos] \div 32 # type THEN
                [st |-> "bad", payload |-> <<>>, end |-> pos]
            ELSE IF tiny > 24 \/ from + n - 1 > Len(input) THEN
                [st |-> "other", payload |-> <<>>, end |-> pos]
            ELSE [st |-> rest.st, payload |-> SubSeq(input, from, from + n - 1) \o rest.payload,
                  end |-> rest.end]

\* out holds an indefinite-length string of the major type that is decoded
IndefiniteString ==
    /\ dec.op \in {"from_cbor(container)", "from_cbor(contiguous)"}
    /\ Len(out) >= 1
    /\ out[1] = dec.type * 32 + 31

\* C22: decoding an indefinite-length string whose chunks are definite
\* strings of the same major type yields the chunk payloads one after the
\* other in wire order, stops at the first break in header position and
\* leaves the cursor right after that break.
C22_ChunkedString ==
    (IndefiniteString /\ Chunks(out, 2, dec.type).st = "break") =>
        /\ dec.st = "ok"
        /\ dec.value = dec.before \o Chunks(out, 2, dec.type).payload
        /\ dec.pos = Chunks(out, 2, dec.type).end

C22_Witness ==
    /\ dec.op = "from_cbor(container)"
    /\ out = <<95, 65, 255, 255, 1>>
    /\ dec.before = <<7>>
    /\ dec.value = <<7, 255>>
    /\ dec.pos = 5

\* C23: inside an indefinite-length string a chunk header that is itself
\* indefinite, or of another major type, makes the decode fail.
C23_BadChunk ==
    (IndefiniteString /\ Chunks(out, 2, dec.type).st = "bad") => dec.st # "ok"

C23_Witness ==
    /\ dec.op = "from_cbor(container)"
    /\ dec.type = ByteString
    /\ out = <<95, 65, 1, 127, 255, 255>>
    /\ dec.st = "bad_optional_access"

RECURSIVE WireItems(_, _)
\* the unsigned integers below 256 on the wire from position pos up to the
\* first break in header position: whether a break ends them, the integers
\* in wire order, and the position after the break
WireItems(input, pos) ==
    IF pos > Len(input) THEN [break |-> FALSE, items |-> <<>>, end |-> pos]
    ELSE IF input[pos] = 255 THEN [break |-> TRUE, items |-> <<>>, end |-> pos + 1]
    ELSE IF input[pos] <= 23 THEN
        LET rest == WireItems(input, pos + 1)
        IN  [rest EXCEPT !.items = <<Num(input[pos], 8)>> \o @]
    ELSE IF input[pos] = 24 /\ pos < Len(input) THEN
        LET rest == WireItems(input, pos + 2)
        IN  [rest EXCEPT !.items = <<Num(input[pos + 1], 8)>> \o @]
    ELSE [break |-> FALSE, items |-> <<>>, end |-> pos]

\* C24: decoding an indefinite-length array or map ends at the first break
\* in element position (array) or key position (map); the break is consumed
\* and not stored, and the elements or pairs before it are kept in wire
\* order.
C24_BreakEndsContainer ==
    LET wire == WireItems(out, 2)
    IN  /\ (dec.op = "from_cbor(array)" /\ Len(out) >= 1 /\ out[1] = 159 /\ wire.break) =>
              /\ dec.st = "ok"
              /\ dec.value = dec.before \o wire.items
              /\ dec.pos = wire.end
        /\ (/\ dec.op = "from_cbor(map)" /\ Len(out) >= 1 /\ out[1] = 191
            /\ wire.break /\ Len(wire.items) % 2 = 0) =>
              /\ dec.st = "ok"
              /\ dec.value = dec.before \o [i \in 1..(Len(wire.items) \div 2) |->
                                                <<wire.items[2 * i - 1], wire.items[2 * i]>>]
              /\ dec.pos = wire.end

C24_Witness ==
    /\ dec.op = "from_cbor(array)"
    /\ out = <<159, 24, 255, 255>>
    /\ dec.before = <<Num(7, 8)>>
    /\ dec.value = <<Num(7, 8), Num(255, 8)>>
    /\ dec.pos = 5

\* C25: read_float16 returns the binary16 value of the pattern (sign s,
\* exponent e, fraction m): a signed zero for e = 0, m = 0; (-1)^s * m * 2^-24
\* for e = 0, m # 0; a signed infinity for e = 31, m = 0; a NaN for e = 31,
\* m # 0; (-1)^s * (1 + m/1024) * 2^(e-15) otherwise.  The float with
\* exponent field E >= 1 and fraction F is (2^23 + F) * 2^(E-150).
C25_ReadFloat16 ==
    dec.op = "read_float16" =>
        LET s == arg.value[1] \div 128
            e == (arg.value[1] % 128) \div 4
            m == (arg.value[1] % 4) * 256 + arg.value[2]
            f == dec.value.value
        IN  /\ Len(f) = 4
            /\ (e = 0 /\ m = 0) => (FSign(f) = s /\ FExp(f) = 0 /\ FFrac(f) = 0)
            /\ (e = 0 /\ m # 0) =>
                  /\ FSign(f) = s
                  /\ FExp(f) \in 103..126
                  /\ 8388608 + FFrac(f) = m * Pow2(126 - FExp(f))
            /\ (e = 31 /\ m = 0) => (FSign(f) = s /\ FExp(f) = 255 /\ FFrac(f) = 0)
            /\ (e = 31 /\ m # 0) => (FExp(f) = 255 /\ FFrac(f) # 0)
            /\ (e \in 1..30) =>
                  /\ FSign(f) = s
                  /\ FExp(f) = e + 112
                  /\ 8388608 + FFrac(f) = (1024 + m) * 8192

C25_Witness ==
    /\ dec.op = "read_float16"
    /\ arg.value = <<128, 3>>
    /\ dec.value.value = <<180, 64, 0, 0>>

\* C26: the bytes the Value encoder emits for Float(x) are the bytes the
\* free function to_cbor emits for the double x, in content and in number.
C26_FloatEncodersAgree ==
    (enc.by = "Value::to_cbor" /\ arg.kind = "Float") =>
        (enc.st = "ok" /\ out = to_cbor_float(arg.value))

\* the number of bytes of the header that starts with byte
HeaderLength(byte) ==
    CASE byte % 32 = 24 -> 2 [] byte % 32 = 25 -> 3 [] byte % 32 = 26 -> 5
      [] byte % 32 = 27 -> 9 [] OTHER -> 1

\* C27: every successful decode leaves the cursor at the first byte after
\* the decoded item: after a definite-length string with count n, n bytes
\* past the end of its header; after an integer, a float, a bool or a null,
\* and after a null decoded into an optional, right after the header.
C27_CursorAfterItem ==
    /\ (/\ dec.op \in {"Value::from_cbor", "from_cbor(container)", "from_cbor(contiguous)"}
        /\ dec.st = "ok"
        /\ out[1] \div 32 \in {ByteString, Utf8String}
        /\ out[1] % 32 <= 24) =>
            dec.pos = HeaderLength(out[1]) + 1
                      + (IF out[1] % 32 = 24 THEN out[2] ELSE out[1] % 32)
    /\ (/\ dec.op \in {"from_cbor(unsigned)", "from_cbor(signed)", "from_cbor(floating_point)",
                        "from_cbor(bool)", "from_cbor(nullptr_t)", "from_cbor(optional)"}
        /\ dec.st = "ok") =>
            dec.pos = HeaderLength(out[1]) + 1

\* out starts with a whole header
WholeHeader == Len(out) >= 1 /\ Len(out) >= HeaderLength(out[1])

\* C28: typed decoding into a bool succeeds only on the headers 0xF4 and
\* 0xF5, and into null only on 0xF6; every other header, a SpecialFloat
\* header in arm 1 to 4 with payload 20, 21 or 22 and the break included,
\* fails with InvalidType.
C28_TypedSpecials ==
    /\ (dec.op = "from_cbor(bool)" /\ WholeHeader) =>
            IF out[1] \in {244, 245}
            THEN dec.st = "ok" /\ dec.value.b = (out[1] = 245)
            ELSE dec.st = "InvalidType"
    /\ (dec.op = "from_cbor(nullptr_t)" /\ WholeHeader) =>
            IF out[1] = 246 THEN dec.st = "ok" ELSE dec.st = "InvalidType"

\* C29: is_valid_int64 is true exactly for the counts whose integer (count
\* for Positive, -1 - count for Negative) lies in [-2^63, 2^63 - 1], which
\* are the counts below 2^63, and the conversion then yields that integer:
\* the count itself, or the complement of the count's bits.
C29_ValidInt64 ==
    dec.op = "is_valid_int64" =>
        /\ dec.value.valid <=> arg.count[1] < 128
        /\ dec.value.valid =>
              dec.value.value = IF arg.kind = "Positive" THEN arg.count
                                ELSE [i \in 1..8 |-> 255 - arg.count[i]]

\* C30: on every finite byte sequence decoding terminates with a value or
\* an error: no input makes a decoder loop for ever.
C30_DecodeTerminates ==
    dec.op \in {"Value::from_cbor", "from_cbor(unsigned)", "from_cbor(signed)",
                "from_cbor(container)", "from_cbor(contiguous)",
                "from_cbor(array)", "from_cbor(map)", "from_cbor(bool)",
                "from_cbor(nullptr_t)", "from_cbor(optional)",
                "from_cbor(floating_point)"} =>
        dec.st # "loops"

(***************************************************************************)
(* Comparison of Values                                                    *)
(***************************************************************************)
\* operator<=> on two std::unique_ptr<Value>: the order of the addresses
PtrCompare(p, q) == IF p < q THEN "less" ELSE IF p > q THEN "greater" ELSE "equal"

\* std::lexicographical_compare_three_way on two sequences, elements
\* compared by Cmp: the first pair of elements that differ decides, and
\* with none the shorter sequence is less
LexCompare(x, y, Cmp(_, _)) ==
    LET n == IF Len(x) < Len(y) THEN Len(x) ELSE Len(y)
        differ == {i \in 1..n : Cmp(x[i], y[i]) # "equal"}
        first == CHOOSE i \in differ : \A j \in differ : i <= j
    IN  IF differ # {} THEN Cmp(x[first], y[first])
        ELSE IF Len(x) < Len(y) THEN "less"
        ELSE IF Len(x) > Len(y) THEN "greater"
        ELSE "equal"

ByteCompare(a, b) == IF a < b THEN "less" ELSE IF a > b THEN "greater" ELSE "equal"

\* Bytestring::operator<=> and Utf8String::operator<=>: size, then content
StringCompare(value, other) ==
    IF Len(value) < Len(other) THEN "less"
    ELSE IF Len(value) > Len(other) THEN "greater"
    ELSE LexCompare(value, other, ByteCompare)

\* operator<=> on two Array (std::vector<std::unique_ptr<Value>>)
ArrayCompare(items, other) == LexCompare(items, other, PtrCompare)

\* operator<=> on two std::pair of unique_ptr: first, then second
EntryCompare(e, o) ==
    IF PtrCompare(e[1], o[1]) # "equal" THEN PtrCompare(e[1], o[1])
    ELSE PtrCompare(e[2], o[2])

\* operator<=> on two Map (std::map of unique_ptr to unique_ptr)
MapCompare(entries, other) == LexCompare(MapOrder(entries), MapOrder(other), EntryCompare)

\* Value::operator==, defaulted: the same alternative, holding equal values
ValueEq(v, w, junk) ==
    /\ v.kind = w.kind
    /\ CASE v.kind \in {"Positive", "Negative"} -> v.count = w.count
         [] v.kind \in {"Bytestring", "Utf8String"} -> v.value = w.value
         [] v.kind = "Array" -> v.items = w.items
         [] v.kind = "Map" -> v.entries = w.entries
         [] v.kind = "SemanticTag" -> v.id = w.id /\ v.value = w.value
         [] v.kind = "bool" -> v.b = w.b
         [] v.kind = "Float" -> Float_encode(v.value, junk) = Float_encode(w.value, junk)
         [] OTHER -> TRUE

(***************************************************************************)
(* The Value trees a caller builds.  A Value the caller holds lives in one *)
(* of its variables (Stack); a Value behind a std::unique_ptr lives on the  *)
(* free store (Addrs), at whatever free address the allocator picks.        *)
(* heap[a] is the Value at a, or NoValue.                                   *)
(***************************************************************************)
MaxAddr == 4
MaxItems == 2
MaxRoots == 2
MaxDepth == 2

Addrs == 1..MaxAddr
Stack == (MaxAddr + 1)..(MaxAddr + MaxRoots)
NoValue == [kind |-> "free"]

\* the leaves the trees are built from
TreeLeaves ==
    { [kind |-> "Positive", count |-> Num(1, 8)],
      [kind |-> "Utf8String", value |-> <<97>>] }

TagIds == {Num(55799, 8)}

\* the addresses a Value holds unique_ptrs to
Children(v) ==
    CASE v.kind = "Array" -> {v.items[i] : i \in 1..Len(v.items)}
      [] v.kind = "Map" -> {e[1] : e \in v.entries} \cup {e[2] : e \in v.entries}
      [] v.kind = "SemanticTag" -> {v.value}
      [] OTHER -> {}

Live(h) == {a \in DOMAIN h : h[a].kind # "free"}
Roots(h) == Live(h) \cap Stack
Free(h) == Addrs \ Live(h)

RECURSIVE Reach(_, _)
\* a and everything below it
Reach(h, a) == {a} \cup UNION {Reach(h, c) : c \in Children(h[a])}

RECURSIVE Depth(_, _)
\* the number of levels of the tree at a
Depth(h, a) ==
    LET below == {Depth(h, c) : c \in Children(h[a])}
    IN  IF below = {} THEN 1 ELSE 1 + CHOOSE d \in below : \A e \in below : e <= d

RECURSIVE Content(_, _)
\* what the tree at a holds, whatever the addresses of its nodes: the
\* children of an Array in order, the pairs of a Map as a set
Content(h, a) ==
    LET v == h[a]
    IN  CASE v.kind = "Array" ->
                [kind |-> "Array", items |-> [i \in 1..Len(v.items) |-> Content(h, v.items[i])]]
          [] v.kind = "Map" ->
                [kind |-> "Map",
                 pairs |-> {<<Content(h, e[1]), Content(h, e[2])>> : e \in v.entries}]
          [] v.kind = "SemanticTag" ->
                [kind |-> "SemanticTag", id |-> v.id, value |-> Content(h, v.value)]
          [] OTHER -> v

Init ==
    /\ endian \in {"little", "big"}
    /\ arg = Undefined
    /\ enc = NoEnc
    /\ out = <<>>
    /\ dec = NoDec
    /\ heap = [a \in Addrs \cup Stack |-> NoValue]

\* the caller holds no result of an operation on its trees
Idle == enc = NoEnc /\ dec = NoDec

\* the caller changes a tree, between two operations it looks at
Mutate(h) ==
    /\ Idle
    /\ heap' = h
    /\ UNCHANGED <<endian, arg, enc, out, dec>>

\* Value v{leaf}, Value v{Array{}} or Value v{Map{}} in a variable of the
\* caller's
NewValue ==
    \E a \in Stack \ Live(heap) :
    \E v \in TreeLeaves \cup {[kind |-> "Array", items |-> <<>>],
                              [kind |-> "Map", entries |-> {}]} :
        Mutate([heap EXCEPT ![a] = v])

\* c = Value(SemanticTag{id, std::make_unique<Value>(std::move(c))}): the
\* Value in c moves to a new address, and c holds the tag that owns it
NewTag ==
    \E n \in Free(heap), c \in Roots(heap), id \in TagIds :
        /\ Depth(heap, c) < MaxDepth
        /\ Mutate([heap EXCEPT ![n] = heap[c],
                            ![c] = [kind |-> "SemanticTag", id |-> id, value |-> n]])

\* array.push_back(std::make_unique<Value>(leaf))
PushBackNew ==
    \E a \in Roots(heap), n \in Free(heap), v \in TreeLeaves :
        /\ heap[a].kind = "Array"
        /\ Len(heap[a].items) < MaxItems
        /\ Mutate([heap EXCEPT ![n] = v, ![a].items = Append(@, n)])

\* array.push_back(std::make_unique<Value>(std::move(c))): the Value in c
\* moves to a new address owned by the array, and c goes out of scope
PushBackMove ==
    \E a \in Roots(heap), c \in Roots(heap), n \in Free(heap) :
        /\ a # c
        /\ Depth(heap, c) < MaxDepth
        /\ heap[a].kind = "Array"
        /\ Len(heap[a].items) < MaxItems
        /\ Mutate([heap EXCEPT ![n] = heap[c], ![c] = NoValue, ![a].items = Append(@, n)])

\* map.emplace(std::make_unique<Value>(key), std::make_unique<Value>(value))
Emplace ==
    \E m \in Roots(heap), k \in Free(heap), v \in Free(heap) :
    \E key \in TreeLeaves, value \in TreeLeaves :
        /\ k # v
        /\ heap[m].kind = "Map"
        /\ Cardinality(heap[m].entries) < MaxItems
        /\ Mutate([heap EXCEPT ![k] = key, ![v] = value, ![m].entries = @ \cup {<<k, v>>}])

\* the Value in a goes out of scope, and with it everything it owns
Destroy ==
    \E a \in Roots(heap) :
        Mutate([c \in DOMAIN heap |-> IF c \in Reach(heap, a) THEN NoValue ELSE heap[c]])

\* heap[a].to_cbor(std::back_inserter(out))
ToCbor ==
    \E a \in Roots(heap), junk \in JunkBytes :
        /\ Idle
        /\ enc' = [by |-> "Value::to_cbor", st |-> "ok", root |-> a]
        /\ out' = EncodeValue(heap, heap[a], junk)
        /\ dec' = NoDec
        /\ UNCHANGED <<endian, arg, heap>>

Compared(op, a, b, result) ==
    [op |-> op, st |-> "ok", pos |-> 0,
     value |-> [kind |-> "result", lhs |-> a, rhs |-> b, is |-> result]]

\* the caller compares two of its Values
Compare(op, a, b, result) ==
    /\ Idle
    /\ dec' = Compared(op, a, b, result)
    /\ UNCHANGED <<endian, arg, enc, out, heap>>

\* heap[a] == heap[b]
Equals ==
    \E a \in Roots(heap), b \in Roots(heap), junk \in JunkBytes :
        Compare("operator==", a, b, ValueEq(heap[a], heap[b], junk))

\* operator<=> on the alternatives two Values hold, both byte strings, both
\* UTF-8 strings, both Array or both Map
ThreeWay ==
    \E a \in Roots(heap), b \in Roots(heap) :
        /\ heap[a].kind = heap[b].kind
        /\ heap[a].kind \in {"Bytestring", "Utf8String", "Array", "Map"}
        /\ Compare("operator<=>", a, b,
                CASE heap[a].kind = "Array" -> ArrayCompare(heap[a].items, heap[b].items)
                  [] heap[a].kind = "Map" -> MapCompare(heap[a].entries, heap[b].entries)
                  [] OTHER -> StringCompare(heap[a].value, heap[b].value))

\* the caller is done with the result of an operation
Drop ==
    /\ ~Idle
    /\ enc' = NoEnc
    /\ out' = <<>>
    /\ dec' = NoDec
    /\ UNCHANGED <<endian, arg, heap>>

Next ==
    \/ NewValue
    \/ NewTag
    \/ PushBackNew
    \/ PushBackMove
    \/ Emplace
    \/ Destroy
    \/ ToCbor
    \/ Equals
    \/ ThreeWay
    \/ Drop

Spec == Init /\ [][Next]_vars

(***************************************************************************)
(* Properties of Values and their trees                                    *)
(***************************************************************************)
\* C1: decoding the bytes that encoding a Value without Float produced
\* returns a Value equal to it.
C1_RoundTrip ==
    (/\ enc.by = "Value::to_cbor"
     /\ arg.kind \notin {"Float", "input"}
     /\ dec.op = "Value::from_cbor") =>
        (dec.st = "ok" /\ dec.value = arg)

\* the orders the pairs of a Map can be written in
PairOrders(entries) ==
    {s \in [1..Cardinality(entries) -> entries] : \A i, j \in DOMAIN s : s[i] = s[j] => i = j}

RECURSIVE Joined(_)
\* the byte strings of a sequence, one after the other
Joined(parts) == IF parts = <<>> THEN <<>> ELSE Head(parts) \o Joined(Tail(parts))

\* C18: an Array of k children encodes to the header (major type 4, count
\* k) and the encodings of the children in index order; a Map of k pairs to
\* the header (major type 5, count k) and, pair by pair, the key's encoding
\* and then its value's; SemanticTag(id, child) to the header (major type 6,
\* count id) and the child's encoding.
C18_ContainerEncoding ==
    enc.by = "Value::to_cbor" =>
        LET v == heap[enc.root]
            Child(a) == EncodeValue(heap, heap[a], 0)
        IN  /\ v.kind = "Array" =>
                  out = SmallestHeader(Array, Num(Len(v.items), 8))
                        \o Joined([i \in 1..Len(v.items) |-> Child(v.items[i])])
            /\ v.kind = "Map" =>
                  \E s \in PairOrders(v.entries) :
                      out = SmallestHeader(Map, Num(Cardinality(v.entries), 8))
                            \o Joined([i \in DOMAIN s |-> Child(s[i][1]) \o Child(s[i][2])])
            /\ v.kind = "SemanticTag" =>
                  out = SmallestHeader(SemanticTag, v.id) \o Child(v.value)

C18_Witness ==
    /\ enc.by = "Value::to_cbor"
    /\ heap[enc.root].kind = "Array"
    /\ Len(heap[enc.root].items) = 2
    /\ heap[heap[enc.root].items[1]] # heap[heap[enc.root].items[2]]
    /\ Len(out) = 4

\* the ways the allocator can place the nodes of the trees
Placements == {p \in [Addrs -> Addrs] : \A a, b \in Addrs : p[a] = p[b] => a = b}

\* the heap with every node on the free store at p of its address: what the
\* same construction leaves when the allocator hands out other addresses
Relocate(h, p) ==
    LET At(a) == IF a \in Addrs THEN p[a] ELSE a
        Moved(v) ==
            CASE v.kind = "Array" -> [v EXCEPT !.items = [i \in 1..Len(v.items) |-> At(v.items[i])]]
              [] v.kind = "Map" -> [v EXCEPT !.entries = {<<At(e[1]), At(e[2])>> : e \in v.entries}]
              [] v.kind = "SemanticTag" -> [v EXCEPT !.value = At(v.value)]
              [] OTHER -> v
    IN  [a \in DOMAIN h |-> Moved(h[CHOOSE b \in DOMAIN h : At(b) = a])]

\* C4: a Map of pairs with pairwise distinct keys encodes to the same bytes
\* whatever the order the pairs were inserted in.  Each emplace allocates
\* the key and the value it inserts, so another insertion order is the same
\* pairs at other addresses.
C4_MapOrderIndependent ==
    (/\ enc.by = "Value::to_cbor"
     /\ heap[enc.root].kind = "Map"
     /\ \A e, o \in heap[enc.root].entries : heap[e[1]] = heap[o[1]] => e = o) =>
        \A p \in Placements :
            EncodeValue(Relocate(heap, p), Relocate(heap, p)[enc.root], 0) = out

\* C5: operator== on two Values is TRUE exactly when they hold the same
\* content, children in the same order, at every depth.
C5_StructuralEquality ==
    dec.op = "operator==" =>
        (dec.value.is <=> Content(heap, dec.value.lhs) = Content(heap, dec.value.rhs))

\* the order of two leaves by value: the alternative, then what it holds
LeafOrder(v, w) ==
    LET Rank(k) == CASE k = "Positive" -> 0 [] k = "Negative" -> 1 [] k = "Bytestring" -> 2
                     [] k = "Utf8String" -> 3 [] OTHER -> 4
    IN  IF Rank(v.kind) < Rank(w.kind) THEN "less"
        ELSE IF Rank(v.kind) > Rank(w.kind) THEN "greater"
        ELSE IF v.kind \in {"Positive", "Negative"} THEN
            IF NumLt(v.count, w.count) THEN "less"
            ELSE IF NumLt(w.count, v.count) THEN "greater" ELSE "equal"
        ELSE IF v.kind \in {"Bytestring", "Utf8String"} THEN StringCompare(v.value, w.value)
        ELSE "equal"

\* fewer elements first, then the first pair of elements that differ
SizeThenElements(x, y, Cmp(_, _)) ==
    IF Len(x) < Len(y) THEN "less"
    ELSE IF Len(x) > Len(y) THEN "greater"
    ELSE LexCompare(x, y, Cmp)

\* the order of two pairs of leaves: the key, then the value
PairOrder(e, o) == LexCompare(e, o, LeafOrder)

RECURSIVE PairsByValue(_, _)
\* the pairs of a Map of leaves, the least by value first
PairsByValue(h, entries) ==
    IF entries = {} THEN <<>>
    ELSE LET Pair(e) == <<h[e[1]], h[e[2]]>>
             first == CHOOSE e \in entries :
                         \A o \in entries : PairOrder(Pair(e), Pair(o)) # "greater"
         IN  <<Pair(first)>> \o PairsByValue(h, entries \ {first})

\* the order of two containers of leaves by size, then by their elements'
\* values; the elements of a Map are its pairs
OrderByValue(h, a, b) ==
    LET Leaves(items) == [i \in 1..Len(items) |-> h[items[i]]]
        Pairs(entries) == PairsByValue(h, entries)
    IN  CASE h[a].kind = "Array" ->
                SizeThenElements(Leaves(h[a].items), Leaves(h[b].items), LeafOrder)
          [] h[a].kind = "Map" ->
                SizeThenElements(Pairs(h[a].entries), Pairs(h[b].entries), PairOrder)
          [] OTHER -> SizeThenElements(h[a].value, h[b].value, ByteCompare)

\* C6: operator<=> on two byte strings, two UTF-8 strings, two arrays or two
\* maps puts the one with fewer elements first and orders two of one size by
\* the first elements whose values differ.
C6_ContainerOrder ==
    dec.op = "operator<=>" =>
        dec.value.is = OrderByValue(heap, dec.value.lhs, dec.value.rhs)

====
